---------------------------- MODULE Spec2Model ----------------------------
(***************************************************************************)
(* A model of luv (src/src/luv/__init__.py): the compilation sequencer of  *)
(* LaTeXEnvironment (compile, the bibliography detection functions, the    *)
(* single pass and the 4-pass sequence, the biber/bibtex runners), the     *)
(* memoised name lookup of PackageResolver, its scans of the document      *)
(* tree and resolve_dependencies, the requirements manifest and the        *)
(* commands of main(), install_package_smart, and the thread pools of      *)
(* resolve_dependencies and sync.                                          *)
(*                                                                         *)
(* Text is modelled at the level the code reads it.  The entry file is the *)
(* set of regex signatures that occur in it plus the sequence, in document *)
(* order, of its \usepackage...{biblatex} declarations; a captured output  *)
(* stream is the set of phrases that occur in it.  'p in text' and         *)
(* re.search(p, text) are membership in those sets.                        *)
(***************************************************************************)
EXTENDS Naturals, Integers, Sequences, FiniteSets

VARIABLES
    texfile,        \* the entry file on disk: "missing", "unreadable" or "ok"
    content,        \* its text: [sigs: signatures present, decls: biblatex declarations]
    bibFiles,       \* TRUE iff the project root holds at least one *.bib file
    pdf,            \* TRUE iff <output_dir>/<basename>.pdf exists
    aux,            \* TRUE iff <output_dir>/<basename>.aux exists
    pc,             \* position inside compile()
    has_bibliography, has_citations, bibliography_backend,   \* locals of compile()
    mode,           \* branch taken by compile(): "none", "sequence", "single"
    log,            \* every subprocess.run attempted so far, in order: <<tool, status>>
    verdict,        \* verdict of each engine pass of the sequence: "none", "ok", "failed"
    produced,       \* per pass: did that engine run itself write the PDF
    bib,            \* outcome of pass 2: "none", "skipped", "ok", "failed"
    scans,          \* log positions of the engine runs whose stdout _check_warnings read
    result,         \* outcome of compile(): "none", "success", "failure", "LuvError"
    last            \* the latest engine run judged by _run_latex_pass, or NoRun

compileVars == <<texfile, content, bibFiles, pdf, aux, pc, has_bibliography,
                 has_citations, bibliography_backend, mode, log, verdict,
                 produced, bib, scans, result, last>>

VARIABLES
    nresolvers,     \* PackageResolver objects constructed so far in this process
    cache,          \* the lru_cache of resolve_package_name, least recently used first
    searches,       \* per identifier: tlmgr search invocations so far
    ncalls,         \* per identifier: calls of resolve_package_name so far
    answers         \* per identifier: the values those calls returned

resolverVars == <<nresolvers, cache, searches, ncalls, answers>>

VARIABLES
    sty,            \* the names <name> with a file <name>.sty in the project root
    tree,           \* the .tex files of the project, by location: text or Missing
    strictStat,     \* TRUE iff Path.exists() raises OSError on an over-long path
    stub,           \* what resolve_package_name answers, per identifier
    explicitly_used, found_packages,   \* fields of the PackageResolver object
    submitted,      \* per identifier: submissions to the executor in the last call
    outcome,        \* of the last resolve_dependencies: "none", "returned", "OSError"
    resolved,       \* the list the last resolve_dependencies returned
    calls,          \* every resolve_dependencies so far: the tree read, what it left,
                    \* the visited_files set of each of its two scans
    nedits          \* edits of the document tree so far

treeVars == <<sty, tree, strictStat, stub, explicitly_used, found_packages,
              submitted, outcome, resolved, calls, nedits>>

VARIABLES
    envExists,      \* TRUE iff .luv and .luv/texmf exist
    manifest,       \* latex-requirements.txt: [exists, lines (the requirements)]
    command,        \* the subcommand of the last run of main(), or "none"
    package,        \* the resolved name the last add or remove worked on, or "none"
    tool,           \* the tlmgr remove run of the last remove_package
    passed,         \* the flags of the last resolve and the arguments main() gave
                    \* env.resolve_dependencies
    written,        \* TRUE iff the last run wrote latex-requirements.txt
    prompted,       \* TRUE iff the last run called input()
    attempts,       \* the install_package_smart calls of the last sync: [name, result]
    failed_packages,\* failed_packages at the end of the last sync
    reported,       \* TRUE iff the last run logged an error or a failure warning
    raised,         \* the exception that reached main()'s handlers, or "none"
    exit,           \* the exit code of the last run of main()
    ncmds           \* runs of main() so far

cliVars == <<envExists, manifest, command, package, tool, passed, written, prompted,
             attempts, failed_packages, reported, raised, exit, ncmds>>

VARIABLES
    lookup,         \* the latest run of the body of resolve_package_name:
                    \* [id, run (of tlmgr search), value, searched]
    install,        \* the latest install_package_smart: [name, exists, tries,
                    \* resolved, returned]
    pool            \* the ThreadPoolExecutor of the batch under way

callVars == <<lookup, install, pool>>

vars == <<compileVars, resolverVars, treeVars, cliVars, callVars>>

----------------------------------------------------------------------------
(* Bounds *)

\* longest sequence of \usepackage...{biblatex} declarations in the entry file
MaxDecls == 2

\* direct calls of _run_latex_pass in one run of SpecPass
MaxPassCalls == 2

\* PackageResolver objects constructed in one process
MaxResolvers == 2

\* calls of resolve_package_name in one process
MaxResolveCalls == 4

\* lines of one tlmgr search output
MaxLines == 2

----------------------------------------------------------------------------
(* Text of the entry file *)

\* bib_patterns of _has_bibliography
BibPatterns == {"\\bibliography{", "\\bibliographystyle{", "\\printbibliography",
                "\\addbibresource{"}

\* cite_patterns of _has_citations
CitePatterns == {"\\cite{", "\\citep{", "\\citet{", "\\citeauthor{", "\\autocite{",
                 "\\textcite{"}

Signatures == BibPatterns \cup CitePatterns

\* The option texts a backend directive can be found in.
BackendOptions == {"backend=biber", "backend=bibtex"}

\* One \usepackage...{biblatex} declaration: bare (\usepackage{biblatex}) or
\* bracketed, with the set of backend directives found inside its [...]
Bare == [bracketed |-> FALSE, opts |-> {}]

Declarations == {Bare} \cup [bracketed : {TRUE}, opts : SUBSET BackendOptions]

SeqsUpTo(S, n) == UNION {[1..k -> S] : k \in 0..n}

EmptyContent == [sigs |-> {}, decls |-> <<>>]

Contents == [sigs : SUBSET Signatures, decls : SeqsUpTo(Declarations, MaxDecls)]

\* re.search(pattern, content)
Search(pattern, c) == pattern \in c.sigs

----------------------------------------------------------------------------
(* Detection functions *)

HasAnyBibPattern(c) == \E p \in BibPatterns : Search(p, c)

_has_bibliography(file, c, bibs) ==
    IF file # "ok" THEN FALSE          \* read_text raised: except -> False
    ELSE IF HasAnyBibPattern(c) THEN TRUE
    ELSE bibs                          \* len(glob('*.bib')) > 0

_has_citations(file, c) ==
    IF file # "ok" THEN FALSE
    ELSE \E p \in CitePatterns : Search(p, c)

\* re.findall(biblatex_pattern, content): the option texts of the declarations
\* that carry [...], in document order
RECURSIVE Matches(_)
Matches(decls) ==
    IF decls = <<>> THEN <<>>
    ELSE IF ~Head(decls).bracketed THEN Matches(Tail(decls))
    ELSE <<Head(decls).opts>> \o Matches(Tail(decls))

\* A variant of the loop that tests backend=bibtex before backend=biber.
RECURSIVE BackendOfMatches_bibtex_first(_)
BackendOfMatches_bibtex_first(ms) ==
    IF ms = <<>> THEN "none"
    ELSE IF "backend=bibtex" \in Head(ms) THEN "bibtex"
    ELSE IF "backend=biber" \in Head(ms) THEN "biber"
    ELSE BackendOfMatches_bibtex_first(Tail(ms))

\* the for loop over matches: the first match carrying a backend directive
\* decides, backend=biber tested before backend=bibtex; "none" when the loop
\* falls through
RECURSIVE BackendOfMatches(_)
BackendOfMatches(ms) ==
    IF ms = <<>> THEN "none"
    ELSE IF "backend=biber" \in Head(ms) THEN "biber"
    ELSE IF "backend=bibtex" \in Head(ms) THEN "bibtex"
    ELSE BackendOfMatches(Tail(ms))

\* re.search(r'\\usepackage.*\{biblatex\}', content)
UsesBiblatex(c) == c.decls # <<>>

_get_bibliography_backend(file, c) ==
    IF file # "ok" THEN "bibtex"       \* except -> 'bibtex'
    ELSE LET explicit == BackendOfMatches(Matches(c.decls))
         IN  IF explicit # "none" THEN explicit
             ELSE IF UsesBiblatex(c) THEN "biber"
             ELSE IF Search("\\bibliographystyle{", c) THEN "bibtex"
             ELSE "bibtex"

\* A variant of the gate that enters the sequence when either test holds.
Gate_either(hb, hc) == IF hb \/ hc THEN "sequence" ELSE "single"

\* the branch of compile()
Gate(hb, hc) == IF hb /\ hc THEN "sequence" ELSE "single"


----------------------------------------------------------------------------
(* External processes *)

\* The phrases a captured stream is searched for by _run_latex_pass.
Phrases == {"Fatal error", "Emergency stop"}

Streams == SUBSET Phrases

\* The engine binary is not found: subprocess.run raises FileNotFoundError.
NoRun == [found |-> FALSE, returncode |-> 0, stdout |-> {}, stderr |-> {},
          writesPdf |-> FALSE, writesAux |-> FALSE]

\* One subprocess.run of the engine: not found (FileNotFoundError), or a
\* CompletedProcess with its exit code and captured streams, together with
\* what the process left in the output directory.
EngineRuns ==
    {NoRun} \cup
    [found : {TRUE}, returncode : {0, 1}, stdout : Streams, stderr : Streams,
     writesPdf : BOOLEAN, writesAux : BOOLEAN]

\* No direct call of _run_latex_pass has returned yet.
NoCall == [run |-> NoRun, pdfExists |-> FALSE, final |-> FALSE, ok |-> FALSE]

\* What one bibliography binary does when launched: FileNotFoundError,
\* exit code 0, or a nonzero exit code.
ToolStatus == {"missing", "ok", "failed"}

\* A variant of the list that tries the local script before the system biber.
biber_commands_local_first == <<"scripts/biber/biber.pl", "biber", "bin/biber">>

\* biber_commands of _run_biber, in order of preference
biber_commands == <<"biber", "scripts/biber/biber.pl", "bin/biber">>

----------------------------------------------------------------------------
(* _run_latex_pass, _run_bibtex, _run_biber *)

\* A variant of the verdict that also trusts the exit code.
_run_latex_pass_exit_code(pdfExists, run) ==
    IF ~pdfExists THEN FALSE
    ELSE IF "Fatal error" \in run.stdout \/ "Emergency stop" \in run.stdout THEN FALSE
    ELSE run.returncode = 0

\* A variant of the verdict that looks for "Fatal error" only.
_run_latex_pass_one_marker(pdfExists, run) ==
    IF ~pdfExists THEN FALSE
    ELSE IF "Fatal error" \in run.stdout THEN FALSE
    ELSE TRUE

\* The verdict of _run_latex_pass once the engine has run: pdfExists is
\* pdf_file.exists() after the run.
_run_latex_pass(pdfExists, run) ==
    IF ~pdfExists THEN FALSE
    ELSE IF "Fatal error" \in run.stdout \/ "Emergency stop" \in run.stdout THEN FALSE
    ELSE TRUE

\* _run_bibtex: one launch of bibtex; [log, ok]
_run_bibtex(bibtex) ==
    [log |-> << <<"bibtex", bibtex>> >>, ok |-> (bibtex = "ok")]

\* A variant of the loop that goes on to the next candidate when one fails.
RECURSIVE BiberFrom_past_failure(_, _, _)
BiberFrom_past_failure(i, avail, bibtex) ==
    IF i > Len(biber_commands) THEN _run_bibtex(bibtex)
    ELSE LET entry == <<biber_commands[i], avail[i]>>
         IN  IF avail[i] = "ok" THEN [log |-> <<entry>>, ok |-> TRUE]
             ELSE LET rest == BiberFrom_past_failure(i + 1, avail, bibtex)
                  IN  [log |-> <<entry>> \o rest.log, ok |-> rest.ok]

\* The loop of _run_biber from candidate i on, then the fallback; [log, ok]
RECURSIVE BiberFrom(_, _, _)
BiberFrom(i, avail, bibtex) ==
    IF i > Len(biber_commands) THEN _run_bibtex(bibtex)
    ELSE LET entry == <<biber_commands[i], avail[i]>>
         IN  IF avail[i] = "missing"
             THEN LET rest == BiberFrom(i + 1, avail, bibtex)
                  IN  [log |-> <<entry>> \o rest.log, ok |-> rest.ok]
             ELSE [log |-> <<entry>>, ok |-> (avail[i] = "ok")]

_run_biber(avail, bibtex) == BiberFrom(1, avail, bibtex)

----------------------------------------------------------------------------
(* compile() *)

Passes == {1, 3, 4}

PassOf(p) == CASE p = "pass1" -> 1 [] p = "pass3" -> 3 [] p = "pass4" -> 4

\* A variant that goes on to pass 4 whatever pass 3 was judged.
AfterPass3_continues(ok) == "pass4"

\* A variant of the result that lets a failed processor fail the sequence.
SequenceResult_with_processor(pass4ok, bibOutcome) ==
    pass4ok /\ bibOutcome # "failed"

\* A variant in which every pass of the sequence is run with final=True.
FinalPass_every(n) == TRUE

\* The final argument _compile_with_bibliography gives _run_latex_pass
FinalPass(n) == n = 4

\* Where _compile_with_bibliography goes after a pass
AfterPass1(ok) == IF ok THEN "bib" ELSE "done"
AfterPass3(ok) == IF ok THEN "pass4" ELSE "done"

\* Whether pass 2 runs a bibliography processor
RunsProcessor(auxExists) == auxExists

\* The value _compile_with_bibliography returns after pass 4
SequenceResult(pass4ok, bibOutcome) == pass4ok

\* A variant of the single pass that also wants the output file.
SinglePassResult_with_artifact(run) == run.returncode = 0 /\ run.writesPdf

\* The value _compile_single_pass returns
SinglePassResult(run) == run.returncode = 0

Outcome(ok) == IF ok THEN "success" ELSE "failure"

Judged(ok) == IF ok THEN "ok" ELSE "failed"

TypeOK ==
    /\ texfile \in {"missing", "unreadable", "ok"}
    /\ content \in Contents
    /\ bibFiles \in BOOLEAN /\ pdf \in BOOLEAN /\ aux \in BOOLEAN
    /\ pc \in {"start", "single", "pass1", "bib", "pass3", "pass4", "done", "call"}
    /\ has_bibliography \in BOOLEAN /\ has_citations \in BOOLEAN
    /\ bibliography_backend \in {"none", "biber", "bibtex"}
    /\ mode \in {"none", "sequence", "single"}
    /\ verdict \in [Passes -> {"none", "ok", "failed"}]
    /\ produced \in {"none", "yes", "no"}
    /\ bib \in {"none", "skipped", "ok", "failed"}
    /\ scans \subseteq 1..Len(log)
    /\ result \in {"none", "success", "failure", "LuvError"}
    /\ last \in [run : EngineRuns, pdfExists : BOOLEAN, final : BOOLEAN,
                 ok : BOOLEAN]

InitCompile(cs) ==
    /\ texfile \in {"missing", "unreadable", "ok"}
    /\ content \in (IF texfile = "ok" THEN cs ELSE {EmptyContent})
    /\ bibFiles \in BOOLEAN
    /\ pdf \in BOOLEAN
    /\ aux \in BOOLEAN
    /\ pc = "start"
    /\ has_bibliography = FALSE /\ has_citations = FALSE
    /\ bibliography_backend = "none"
    /\ mode = "none"
    /\ log = <<>>
    /\ verdict = [p \in Passes |-> "none"]
    /\ produced = "none"
    /\ bib = "none"
    /\ scans = {}
    /\ result = "none"
    /\ last = NoCall

\* compile() up to the choice between the sequence and the single pass
Compile ==
    /\ pc = "start"
    /\ IF texfile = "missing"
       THEN /\ result' = "LuvError"
            /\ pc' = "done"
            /\ UNCHANGED <<pdf, aux, has_bibliography, has_citations,
                           bibliography_backend, mode>>
       ELSE \E clean \in BOOLEAN :
            /\ pdf' = (IF clean THEN FALSE ELSE pdf)
            /\ aux' = (IF clean THEN FALSE ELSE aux)
            /\ has_bibliography' = _has_bibliography(texfile, content, bibFiles)
            /\ has_citations' = _has_citations(texfile, content)
            /\ bibliography_backend' = _get_bibliography_backend(texfile, content)
            /\ mode' = Gate(has_bibliography', has_citations')
            /\ pc' = (IF mode' = "sequence" THEN "pass1" ELSE "single")
            /\ result' = "none"
    /\ UNCHANGED <<texfile, content, bibFiles, log, verdict, produced, bib, scans, last>>
    /\ UNCHANGED <<resolverVars, treeVars, cliVars, callVars>>

\* _compile_single_pass
CompileSinglePass ==
    /\ pc = "single"
    /\ \E run \in EngineRuns :
         IF ~run.found
         THEN /\ log' = Append(log, <<"engine", "missing">>)
              /\ result' = "LuvError"
              /\ UNCHANGED <<pdf, aux, scans>>
         ELSE /\ log' = Append(log, <<"engine", "ran">>)
              /\ pdf' = (pdf \/ run.writesPdf)
              /\ aux' = (aux \/ run.writesAux)
              /\ result' = Outcome(SinglePassResult(run))
              /\ scans' = (IF SinglePassResult(run) THEN scans \cup {Len(log')} ELSE scans)
    /\ pc' = "done"
    /\ UNCHANGED <<texfile, content, bibFiles, has_bibliography, has_citations,
                   bibliography_backend, mode, verdict, produced, bib, last>>
    /\ UNCHANGED <<resolverVars, treeVars, cliVars, callVars>>

\* One engine pass of _compile_with_bibliography: passes 1, 3 and 4
RunLatexPass ==
    /\ pc \in {"pass1", "pass3", "pass4"}
    /\ \E run \in EngineRuns :
         LET n == PassOf(pc) IN
         IF ~run.found
         THEN /\ log' = Append(log, <<"engine", "missing">>)
              /\ result' = "LuvError"
              /\ pc' = "done"
              /\ UNCHANGED <<pdf, aux, verdict, produced, scans>>
         ELSE LET ok == _run_latex_pass(pdf \/ run.writesPdf, run) IN
              /\ log' = Append(log, <<"engine", "ran">>)
              /\ pdf' = (pdf \/ run.writesPdf)
              /\ aux' = (aux \/ run.writesAux)
              /\ verdict' = [verdict EXCEPT ![n] = Judged(ok)]
              /\ produced' = (IF n = 1 THEN (IF run.writesPdf THEN "yes" ELSE "no")
                              ELSE produced)
              /\ scans' = (IF ok /\ FinalPass(n) THEN scans \cup {Len(log')} ELSE scans)
              /\ pc' = (CASE n = 1 -> AfterPass1(ok)
                          [] n = 3 -> AfterPass3(ok)
                          [] n = 4 -> "done")
              /\ result' = (IF n = 4 THEN Outcome(SequenceResult(ok, bib))
                            ELSE IF pc' = "done" THEN "failure"
                            ELSE result)
    /\ UNCHANGED <<texfile, content, bibFiles, has_bibliography, has_citations,
                   bibliography_backend, mode, bib, last>>
    /\ UNCHANGED <<resolverVars, treeVars, cliVars, callVars>>

\* Pass 2 of _compile_with_bibliography
RunBibliography ==
    /\ pc = "bib"
    /\ IF ~RunsProcessor(aux)
       THEN /\ bib' = "skipped"
            /\ log' = log
       ELSE \E avail \in [1..Len(biber_commands) -> ToolStatus], bibtex \in ToolStatus :
            LET r == IF bibliography_backend = "biber"
                     THEN _run_biber(avail, bibtex)
                     ELSE _run_bibtex(bibtex)
            IN  /\ log' = log \o r.log
                /\ bib' = Judged(r.ok)
    /\ pc' = "pass3"
    /\ UNCHANGED <<texfile, content, bibFiles, pdf, aux, has_bibliography,
                   has_citations, bibliography_backend, mode, verdict, produced,
                   scans, result, last>>
    /\ UNCHANGED <<resolverVars, treeVars, cliVars, callVars>>

\* A direct call of _run_latex_pass(texfile, output_dir, engine, env, final)
CallLatexPass ==
    /\ pc \in {"start", "call"}
    /\ Len(log) < MaxPassCalls
    /\ \E run \in EngineRuns, final \in BOOLEAN :
         IF ~run.found
         THEN /\ log' = Append(log, <<"engine", "missing">>)
              /\ result' = "LuvError"
              /\ last' = NoCall
              /\ UNCHANGED <<pdf, aux, scans>>
         ELSE LET ok == _run_latex_pass(pdf \/ run.writesPdf, run) IN
              /\ log' = Append(log, <<"engine", "ran">>)
              /\ pdf' = (pdf \/ run.writesPdf)
              /\ aux' = (aux \/ run.writesAux)
              /\ scans' = (IF ok /\ final THEN scans \cup {Len(log')} ELSE scans)
              /\ result' = Outcome(ok)
              /\ last' = [run |-> run, pdfExists |-> pdf', final |-> final, ok |-> ok]
    /\ pc' = "call"
    /\ UNCHANGED <<texfile, content, bibFiles, has_bibliography, has_citations,
                   bibliography_backend, mode, verdict, produced, bib>>
    /\ UNCHANGED <<resolverVars, treeVars, cliVars, callVars>>

\* A direct call of _compile_single_pass(texfile, output_dir, engine, env)
CallSinglePass ==
    /\ pc \in {"start", "call"}
    /\ Len(log) < MaxPassCalls
    /\ \E run \in EngineRuns :
         IF ~run.found
         THEN /\ log' = Append(log, <<"engine", "missing">>)
              /\ result' = "LuvError"
              /\ last' = NoCall
              /\ UNCHANGED <<pdf, aux, scans>>
         ELSE LET ok == SinglePassResult(run) IN
              /\ log' = Append(log, <<"engine", "ran">>)
              /\ pdf' = (pdf \/ run.writesPdf)
              /\ aux' = (aux \/ run.writesAux)
              /\ scans' = (IF ok THEN scans \cup {Len(log')} ELSE scans)
              /\ result' = Outcome(ok)
              /\ last' = [run |-> run, pdfExists |-> pdf', final |-> FALSE, ok |-> ok]
    /\ pc' = "call"
    /\ UNCHANGED <<texfile, content, bibFiles, has_bibliography, has_citations,
                   bibliography_backend, mode, verdict, produced, bib>>
    /\ UNCHANGED <<resolverVars, treeVars, cliVars, callVars>>

----------------------------------------------------------------------------
(* PackageResolver.resolve_package_name and its lru_cache *)

CORE_PACKAGES == {"fontenc", "inputenc", "textcomp", "ifthen", "calc", "url"}

\* The identifiers the callers pass in.
Identifiers == {"url", "calc", "tikz"}

\* The names the parser never takes as a candidate
NoiseNames == {"tlmgr", "texlive-base"}

\* What a line of tlmgr's output can read, once stripped of blanks and colons
LineTexts == {"pgf", "TikZ-cd", "tlmgr", "texmf-dist/tikz.sty"}

\* str.lower()
Lower(t) == IF t = "TikZ-cd" THEN "tikz-cd" ELSE t

\* a in b, for lower-case texts
Infix(a, b) ==
    \/ a = b
    \/ <<a, b>> \in {<<"tikz", "tikz-cd">>, <<"tikz", "texmf-dist/tikz.sty">>}

\* One line of stdout: its text, whether it is indented, whether it ends with ':'
Lines == [text : LineTexts, indented : BOOLEAN, colon : BOOLEAN]

\* tlmgr is not installed: subprocess.run raises FileNotFoundError.
TlmgrMissing == [found |-> FALSE, returncode |-> 0, stdout |-> <<>>]

\* One run of 'tlmgr search --global --file /<name>.sty'
TlmgrRuns ==
    {TlmgrMissing} \cup
    [found : {TRUE}, returncode : {0, 1}, stdout : SeqsUpTo(Lines, MaxLines)]

\* line.strip() removes the indentation, so startswith(' ') is false of every line
IsNameLine(line) == line.colon

Eligible(line) == IsNameLine(line) /\ line.text \notin NoiseNames

Fuzzy(latex_package, package_name) ==
    \/ Infix(Lower(latex_package), Lower(package_name))
    \/ Infix(Lower(package_name), Lower(latex_package))

\* The for loop over the lines: "fuzzy" when it returns from inside the loop
RECURSIVE ScanLines(_, _, _)
ScanLines(latex_package, lines, candidates) ==
    IF lines = <<>> THEN [fuzzy |-> FALSE, name |-> "", candidates |-> candidates]
    ELSE LET line == Head(lines) IN
         IF Eligible(line)
         THEN IF Fuzzy(latex_package, line.text)
              THEN [fuzzy |-> TRUE, name |-> line.text, candidates |-> candidates]
              ELSE ScanLines(latex_package, Tail(lines), Append(candidates, line.text))
         ELSE ScanLines(latex_package, Tail(lines), candidates)

\* The body of resolve_package_name below the core test, given tlmgr's run
ParseSearch(latex_package, run) ==
    IF run.found /\ run.returncode = 0 /\ run.stdout # <<>>
    THEN LET r == ScanLines(latex_package, run.stdout, <<>>) IN
         IF r.fuzzy THEN r.name
         ELSE IF r.candidates # <<>> THEN r.candidates[1]
         ELSE latex_package
    ELSE latex_package

\* A variant of the body without the core test.
ResolveBody_no_core_test(latex_package, run) ==
    [value |-> ParseSearch(latex_package, run), searched |-> TRUE]

\* The body of resolve_package_name: the value returned ("None" for null) and
\* whether tlmgr search was invoked
ResolveBody(latex_package, run) ==
    IF latex_package \in CORE_PACKAGES
    THEN [value |-> "None", searched |-> FALSE]
    ELSE [value |-> ParseSearch(latex_package, run), searched |-> TRUE]

\* Every outcome the body can have for an identifier, over all runs of tlmgr
BodyOutcomes == [id \in Identifiers |-> {ResolveBody(id, run) : run \in TlmgrRuns}]

\* maxsize of the lru_cache
maxsize == 128

\* The key lru_cache makes of the call's arguments (self, latex_package)
CacheKey(self, latex_package) == <<self, latex_package>>

RECURSIVE Find(_, _)
Find(c, key) ==
    IF c = <<>> THEN 0
    ELSE IF c[Len(c)].key = key THEN Len(c)
    ELSE Find(SubSeq(c, 1, Len(c) - 1), key)

Without(c, i) == SubSeq(c, 1, i - 1) \o SubSeq(c, i + 1, Len(c))

\* A hit moves the entry to the most recently used end
Touch(c, i) == Append(Without(c, i), c[i])

\* A miss stores the result, evicting the least recently used entry when full
Store(c, key, value) ==
    LET e == [key |-> key, value |-> value]
    IN  IF Len(c) >= maxsize THEN Append(Tail(c), e) ELSE Append(c, e)

InitResolver ==
    /\ nresolvers = 0
    /\ cache = <<>>
    /\ searches = [id \in Identifiers |-> 0]
    /\ ncalls = [id \in Identifiers |-> 0]
    /\ answers = [id \in Identifiers |-> {}]

\* PackageResolver(project_root): LaTeXEnvironment.resolve_dependencies,
\* install_package_smart and the add and remove commands each construct one
NewResolver ==
    /\ nresolvers < MaxResolvers
    /\ nresolvers' = nresolvers + 1
    /\ UNCHANGED <<cache, searches, ncalls, answers>>
    /\ UNCHANGED <<compileVars, treeVars, cliVars, callVars>>

TotalCalls == ncalls["url"] + ncalls["calc"] + ncalls["tikz"]

\* resolver.resolve_package_name(latex_package), through its lru_cache
ResolvePackageName ==
    /\ TotalCalls < MaxResolveCalls
    /\ \E self \in 1..nresolvers, id \in Identifiers :
         LET key == CacheKey(self, id)
             hit == Find(cache, key)
         IN  /\ ncalls' = [ncalls EXCEPT ![id] = @ + 1]
             /\ IF hit # 0
                THEN /\ cache' = Touch(cache, hit)
                     /\ answers' = [answers EXCEPT ![id] = @ \cup {cache[hit].value}]
                     /\ UNCHANGED searches
                ELSE \E out \in BodyOutcomes[id] :
                     /\ cache' = Store(cache, key, out.value)
                     /\ answers' = [answers EXCEPT ![id] = @ \cup {out.value}]
                     /\ searches' = [searches EXCEPT
                                       ![id] = IF out.searched THEN @ + 1 ELSE @]
    /\ UNCHANGED nresolvers
    /\ UNCHANGED <<compileVars, treeVars, cliVars, callVars>>

----------------------------------------------------------------------------
(* The document tree and the two scans of PackageResolver *)

\* Package identifiers that occur in the documents
Packages == {"amsmath", "biblatex", "etoolbox", "foo", "logreq", "tikz"}

\* One \usepackage declaration: the names of match.split(','), stripped
UseDecls == {<<"amsmath">>, <<"foo">>, <<"amsmath", "foo">>, <<"biblatex">>, <<"tikz">>}

\* The declarations of one file, in document order
UseLists == {<<>>} \cup {<<d>> : d \in UseDecls}

\* Command and environment signatures a text can hold
Marks == {"\\begin{align", "\\begin{tikzpicture}", "\\printbibliography"}

\* The catalog, for the identifiers above
PACKAGE_PATTERNS ==
    [p \in {"amsmath", "tikz", "biblatex", "logreq", "etoolbox"} |->
        CASE p = "amsmath" -> {"\\begin{align"}
          [] p = "tikz" -> {"\\begin{tikzpicture}"}
          [] p = "biblatex" -> {"\\printbibliography", "\\usepackage.*biblatex"}
          [] p = "logreq" -> {"\\usepackage.*biblatex"}
          [] p = "etoolbox" -> {"\\usepackage.*biblatex"}]

\* A path below the project root: directory components, not normalised, and
\* a file name.  pathlib keeps ".." components as they are written.
Components == {"sub", ".."}

\* The argument of \input, \include, \subfile or \InputIfFileExists
T_main == [dir |-> <<>>, name |-> "main"]
T_b == [dir |-> <<>>, name |-> "b.tex"]
T_c == [dir |-> <<"sub">>, name |-> "c"]
T_up == [dir |-> <<"sub", "..">>, name |-> "main"]
T_nothere == [dir |-> <<>>, name |-> "nothere"]

Targets == {T_main, T_b, T_c, T_up, T_nothere}

\* The include directives of one file, in document order
IncludeLists == {<<>>} \cup {<<t>> : t \in Targets} \cup {<<T_b, T_c>>}

\* included_file += '.tex' unless it ends with '.tex'
WithTex(name) ==
    CASE name = "main" -> "main.tex"
      [] name = "c" -> "c.tex"
      [] name = "nothere" -> "nothere.tex"
      [] OTHER -> name

\* The places a .tex file can be: <<depth below the root, file name>>
Locations == {<<0, "main.tex">>, <<0, "b.tex">>, <<1, "c.tex">>}

MainLocation == <<0, "main.tex">>

Missing == [exists |-> FALSE, uses |-> <<>>, marks |-> {}, incl |-> <<>>]

File(uses, marks, incl) == [exists |-> TRUE, uses |-> uses, marks |-> marks, incl |-> incl]

\* project_root / main_file
MainPath == [dir |-> <<>>, name |-> "main.tex"]

\* the longest path, in directory components, the operating system accepts
MaxPathLen == 4

\* The directory a sequence of components leads to from the root: its depth,
\* or -1 when some component does not exist inside the project
RECURSIVE WalkFrom(_, _)
WalkFrom(depth, dir) ==
    IF dir = <<>> THEN depth
    ELSE IF Head(dir) = "sub"
         THEN IF depth = 0 THEN WalkFrom(1, Tail(dir)) ELSE -1
         ELSE IF depth = 1 THEN WalkFrom(0, Tail(dir)) ELSE -1

\* The file a path names, if it is one of the project's
Denotes(path) ==
    LET loc == <<WalkFrom(0, path.dir), path.name>>
    IN  loc \in Locations /\ tree[loc].exists

LocationOf(path) == <<WalkFrom(0, path.dir), path.name>>

\* Path.exists(): "yes", "no", or "raise" (OSError, file name too long)
Exists(path) ==
    IF Len(path.dir) > MaxPathLen
    THEN IF strictStat THEN "raise" ELSE "no"
    ELSE IF Denotes(path) THEN "yes" ELSE "no"

\* file_path.parent / included_file
Sibling(file_path, target) ==
    [dir |-> file_path.dir \o target.dir, name |-> WithTex(target.name)]

\* self.project_root / included_file
FromRoot(target) == [dir |-> target.dir, name |-> WithTex(target.name)]

\* A variant of the filter that keeps every name.
FilteredPackages_all(decl) == {decl[i] : i \in DOMAIN decl}

\* pkg for pkg in packages if not (project_root / f'{pkg}.sty').exists()
FilteredPackages(decl) == {decl[i] : i \in {j \in DOMAIN decl : decl[j] \notin sty}}

\* the targets of every \usepackage of a text that survive the filter
Declared(c) == UNION {FilteredPackages(c.uses[i]) : i \in DOMAIN c.uses}

\* pattern.search(content) for a catalog pattern
PatternSearch(pattern, c) ==
    IF pattern = "\\usepackage.*biblatex"
    THEN \E i \in DOMAIN c.uses : \E j \in DOMAIN c.uses[i] : c.uses[i][j] = "biblatex"
    ELSE pattern \in c.marks

\* A variant of the pattern scan that does not skip the declared packages.
Suggested_with_declared(c, explicit) ==
    {p \in DOMAIN PACKAGE_PATTERNS :
        /\ p \notin sty
        /\ \E pattern \in PACKAGE_PATTERNS[p] : PatternSearch(pattern, c)}

\* the catalog entries one text adds to found_packages
Suggested(c, explicit) ==
    {p \in DOMAIN PACKAGE_PATTERNS :
        /\ p \notin explicit
        /\ p \notin sty
        /\ \E pattern \in PACKAGE_PATTERNS[p] : PatternSearch(pattern, c)}

\* The state a scan threads through its recursion: the visited set, the set it
\* fills, and whether an exception is propagating
ScanStart(acc) == [visited |-> {}, acc |-> acc, raised |-> FALSE]

\* file_path in visited_files
Visited(file_path, st) == file_path \in st.visited

RECURSIVE _scan_file_for_packages(_, _)
RECURSIVE PackagesOfIncludes(_, _, _)

\* the loop over the include directives of file_path
PackagesOfIncludes(file_path, incl, st) ==
    IF incl = <<>> \/ st.raised THEN st
    ELSE LET near == Sibling(file_path, Head(incl))
             e == Exists(near)
         IN  IF e = "raise" THEN [st EXCEPT !.raised = TRUE]
             ELSE LET included_path == IF e = "yes" THEN near ELSE FromRoot(Head(incl))
                  IN  PackagesOfIncludes(file_path, Tail(incl),
                                         _scan_file_for_packages(included_path, st))

_scan_file_for_packages(file_path, st) ==
    IF st.raised \/ Visited(file_path, st) THEN st
    ELSE LET e == Exists(file_path)
         IN  IF e = "raise" THEN [st EXCEPT !.raised = TRUE]
             ELSE IF e = "no" THEN st
             ELSE LET c == tree[LocationOf(file_path)]
                      st1 == [st EXCEPT !.visited = @ \cup {file_path},
                                        !.acc = @ \cup Declared(c)]
                  IN  PackagesOfIncludes(file_path, c.incl, st1)

RECURSIVE _scan_file_for_patterns(_, _, _)
RECURSIVE PatternsOfIncludes(_, _, _, _)

PatternsOfIncludes(file_path, incl, explicit, st) ==
    IF incl = <<>> \/ st.raised THEN st
    ELSE LET near == Sibling(file_path, Head(incl))
             e == Exists(near)
         IN  IF e = "raise" THEN [st EXCEPT !.raised = TRUE]
             ELSE LET included_path == IF e = "yes" THEN near ELSE FromRoot(Head(incl))
                  IN  PatternsOfIncludes(file_path, Tail(incl), explicit,
                                         _scan_file_for_patterns(included_path, explicit, st))

_scan_file_for_patterns(file_path, explicit, st) ==
    IF st.raised \/ Visited(file_path, st) THEN st
    ELSE LET e == Exists(file_path)
         IN  IF e = "raise" THEN [st EXCEPT !.raised = TRUE]
             ELSE IF e = "no" THEN st
             ELSE LET c == tree[LocationOf(file_path)]
                      st1 == [st EXCEPT !.visited = @ \cup {file_path},
                                        !.acc = @ \cup Suggested(c, explicit)]
                  IN  PatternsOfIncludes(file_path, c.incl, explicit, st1)

\* _find_explicit_packages(main_file) and _scan_for_patterns(main_file)
\* given the sets as they stand when the scan starts
_find_explicit_packages(explicit) == _scan_file_for_packages(MainPath, ScanStart(explicit))

_scan_for_patterns(explicit, found) ==
    _scan_file_for_patterns(MainPath, explicit, ScanStart(found))

----------------------------------------------------------------------------
(* PackageResolver.resolve_dependencies *)

\* Every name that is compared: str's order is by code point
Order == <<"amsmath", "biblatex", "etoolbox", "foo", "logreq", "pgf", "tikz", "tikz==3.1">>

Rank(name) == CHOOSE i \in DOMAIN Order : Order[i] = name

\* sorted(): stable, ascending
RECURSIVE Insert(_, _)
Insert(x, seq) ==
    IF seq = <<>> THEN <<x>>
    ELSE IF Rank(x) < Rank(Head(seq)) THEN <<x>> \o seq
    ELSE <<Head(seq)>> \o Insert(x, Tail(seq))

RECURSIVE sorted(_)
sorted(seq) == IF seq = <<>> THEN <<>> ELSE Insert(seq[Len(seq)], sorted(SubSeq(seq, 1, Len(seq) - 1)))

\* list(a_set), and the iteration order of a set: some order, each element once
RECURSIVE list(_)
list(S) == IF S = {} THEN <<>> ELSE LET x == CHOOSE y \in S : TRUE IN <<x>> \o list(S \ {x})

\* What the stubbed resolve_package_name can answer: a TeX Live name, "None",
\* or "raise" for an exception out of the worker
ResolverResults == Packages \cup {"pgf", "None", "raise"}

Identity == [p \in Packages |-> p]

\* A variant of the loop over the futures that keeps a null answer.
RECURSIVE Gather_keeps_null(_, _, _)
Gather_keeps_null(items, answer, resolved_packages) ==
    IF items = <<>> THEN resolved_packages
    ELSE LET tex_live_name == answer[Head(items)]
         IN  Gather_keeps_null(Tail(items), answer,
                    IF tex_live_name = "raise" THEN resolved_packages
                    ELSE resolved_packages \cup {tex_live_name})

\* A variant of the loop over the futures that stops at the first exception.
RECURSIVE Gather_stops(_, _, _)
Gather_stops(items, answer, resolved_packages) ==
    IF items = <<>> THEN resolved_packages
    ELSE LET tex_live_name == answer[Head(items)]
         IN  IF tex_live_name = "raise" THEN resolved_packages
             ELSE Gather_stops(Tail(items), answer,
                        IF tex_live_name = "None" THEN resolved_packages
                        ELSE resolved_packages \cup {tex_live_name})

\* The loop over the futures: resolved_packages after every future.result()
RECURSIVE Gather(_, _, _)
Gather(items, answer, resolved_packages) ==
    IF items = <<>> THEN resolved_packages
    ELSE LET tex_live_name == answer[Head(items)]
         IN  Gather(Tail(items), answer,
                    IF tex_live_name \in {"raise", "None"} THEN resolved_packages
                    ELSE resolved_packages \cup {tex_live_name})

\* A variant of the expansion that does not look at the candidates.
Expansion_always(all_packages) == {"logreq", "etoolbox"}

\* The automatic dependencies added after the names are resolved
Expansion(all_packages) ==
    IF "biblatex" \in all_packages THEN {"logreq", "etoolbox"} ELSE {}

\* A variant of the start of resolve_dependencies that keeps the old sets.
Reset_keeps(old) == old

\* self.found_packages = set(); self.explicitly_used = set()
Reset(old) == {}

NoSubmissions == [p \in Packages |-> 0]

\* executor.submit once per element of all_packages
Submissions(items) ==
    [p \in Packages |-> Cardinality({i \in DOMAIN items : items[i] = p})]

\* calls of resolve_dependencies in one run
MaxRuns == 2

\* edits of the entry file in one run
MaxEdits == 1

InitTree(trees, stys, stubs, stricts) ==
    /\ tree \in trees
    /\ sty \in stys
    /\ stub \in stubs
    /\ strictStat \in stricts
    /\ explicitly_used = {}
    /\ found_packages = {}
    /\ submitted = NoSubmissions
    /\ outcome = "none"
    /\ resolved = <<>>
    /\ calls = <<>>
    /\ nedits = 0

\* The two scans of one call, the second only if the first returned
Scans(old_explicit, old_found) ==
    LET ex == _find_explicit_packages(Reset(old_explicit))
    IN  [ex |-> ex,
         pt |-> IF ex.raised THEN ScanStart(Reset(old_found))
                ELSE _scan_for_patterns(ex.acc, Reset(old_found))]

\* resolve_dependencies(main_file) on a resolver whose sets hold old_explicit
\* and old_found: what it leaves in the object and how it ends
resolve_dependencies(old_explicit, old_found) ==
    LET s == Scans(old_explicit, old_found)
        all_packages == s.pt.acc \cup s.ex.acc
        items == list(all_packages)
    IN  IF s.ex.raised \/ s.pt.raised
        THEN [explicitly_used |-> s.ex.acc, found_packages |-> s.pt.acc,
              outcome |-> "OSError", resolved |-> <<>>, submitted |-> NoSubmissions,
              visited |-> <<s.ex.visited, s.pt.visited>>]
        ELSE [explicitly_used |-> s.ex.acc,
              found_packages |-> s.pt.acc \cup Expansion(all_packages),
              outcome |-> "returned",
              resolved |-> sorted(list(Gather(items, stub, {}))),
              submitted |-> Submissions(items),
              visited |-> <<s.ex.visited, s.pt.visited>>]

\* resolver.resolve_dependencies(main_file) on the resolver object of treeVars
CallResolveDependencies ==
    /\ Len(calls) < MaxRuns
    /\ \E r \in {resolve_dependencies(explicitly_used, found_packages)} :
         /\ explicitly_used' = r.explicitly_used
         /\ found_packages' = r.found_packages
         /\ outcome' = r.outcome
         /\ resolved' = r.resolved
         /\ submitted' = r.submitted
         /\ calls' = Append(calls, [tree |-> tree, outcome |-> r.outcome,
                                    resolved |-> r.resolved,
                                    explicitly_used |-> r.explicitly_used,
                                    found_packages |-> r.found_packages,
                                    visited |-> r.visited])
    /\ UNCHANGED <<sty, tree, strictStat, stub, nedits>>

ResolveDependencies == CallResolveDependencies /\ UNCHANGED <<compileVars, resolverVars, cliVars, callVars>>

\* The document is edited between two calls: the entry file gets another text
EditTree ==
    /\ nedits < MaxEdits
    /\ nedits' = nedits + 1
    /\ \E u \in {<<>>, << <<"biblatex">> >>}, m \in {{}, {"\\begin{tikzpicture}"}} :
         /\ File(u, m, <<>>) # tree[MainLocation]
         /\ tree' = [tree EXCEPT ![MainLocation] = File(u, m, <<>>)]
    /\ UNCHANGED <<sty, strictStat, stub, explicitly_used, found_packages,
                   submitted, outcome, resolved, calls>>
    /\ UNCHANGED <<compileVars, resolverVars, cliVars, callVars>>

\* A text holds at most one signature here
MarkSets == {m \in SUBSET Marks : Cardinality(m) <= 1}

\* A project with an empty entry file and no other .tex file
EmptyTree == [loc \in Locations |-> IF loc = MainLocation THEN File(<<>>, {}, <<>>) ELSE Missing]

\* Projects of one file
FlatTrees ==
    {[EmptyTree EXCEPT ![MainLocation] = File(u, m, <<>>)] : u \in UseLists, m \in MarkSets}

\* Projects of up to three files that include each other in every way
DeepTrees ==
    {[loc \in Locations |->
         CASE loc = MainLocation -> main
           [] loc = <<0, "b.tex">> -> b
           [] loc = <<1, "c.tex">> -> c] :
       main \in {File(u, m, i) : u \in UseLists, m \in MarkSets, i \in IncludeLists},
       b \in {Missing} \cup {File(u, {}, i) : u \in {<<>>, << <<"tikz">> >>},
                                              i \in {<<>>, <<T_main>>, <<T_c>>, <<T_up>>}},
       c \in {Missing} \cup {File(<<>>, m, i) : m \in {{}, {"\\begin{tikzpicture}"}},
                                                i \in {<<>>, <<T_b>>, <<T_main>>}}}

\* Deterministic name resolvers: the identity, changed at one identifier
Stubs ==
    {Identity} \cup
    {[Identity EXCEPT ![p] = v] : p \in {"amsmath", "biblatex", "tikz"},
                                  v \in {"pgf", "None", "raise", "amsmath"}}

IdleTree == InitTree({EmptyTree}, {{}}, {Identity}, {TRUE})

----------------------------------------------------------------------------
(* The requirements manifest and the subcommands of main() *)

\* The requirement lines a manifest can hold when a run starts
RequirementLines == {"amsmath", "tikz", "tikz==3.1"}

\* the most requirement lines in the manifest a run starts from
MaxReqs == 2

NoManifest == [exists |-> FALSE, lines |-> <<>>]

Manifests == {NoManifest} \cup [exists : {TRUE}, lines : SeqsUpTo(RequirementLines, MaxReqs)]

\* get_requirements(): the stripped lines that are neither empty nor comments
get_requirements(m) == IF m.exists THEN m.lines ELSE <<>>

Listed(name, requirements) == \E i \in DOMAIN requirements : requirements[i] = name

\* package.split('==')[0].split('>=')[0].split('<=')[0].strip()
StripVersion(requirement) == IF requirement = "tikz==3.1" THEN "tikz" ELSE requirement

\* set(a_list)
set(seq) == {seq[i] : i \in DOMAIN seq}

\* _update_requirements_file(packages): the manifest it writes
_update_requirements_file(m, packages) ==
    [exists |-> TRUE, lines |-> sorted(list(set(get_requirements(m) \o packages)))]

\* requirements_file.write_text(requirements_file.read_text() + name + '\n')
Appended(m, resolved_name) == [exists |-> TRUE, lines |-> Append(m.lines, resolved_name)]

\* pkg for pkg in requirements if pkg != package_name
Others(requirements, package_name) ==
    SelectSeq(requirements, LAMBDA pkg : pkg # package_name)

\* The tlmgr --usermode remove run: not started (no tlmgr), or its exit code
\* and whether stdout or stderr holds 'not installed'
NoRemoveRun == [found |-> FALSE, returncode |-> 0, notInstalled |-> FALSE]

RemoveRuns == {NoRemoveRun} \cup [found : {TRUE}, returncode : {0, 1}, notInstalled : BOOLEAN]

\* A variant of remove_package that tests 'not installed' before the exit code.
remove_package_message_first(env, m, package_name, run) ==
    IF ~env THEN [manifest |-> m, written |-> FALSE, raised |-> "none", reported |-> TRUE]
    ELSE IF ~run.found THEN [manifest |-> m, written |-> FALSE, raised |-> "LuvError", reported |-> TRUE]
    ELSE IF run.notInstalled THEN [manifest |-> m, written |-> FALSE, raised |-> "none", reported |-> FALSE]
    ELSE IF run.returncode = 0
    THEN [manifest |-> IF Listed(package_name, get_requirements(m))
                       THEN [exists |-> TRUE,
                             lines |-> sorted(Others(get_requirements(m), package_name))]
                       ELSE m,
          written |-> Listed(package_name, get_requirements(m)),
          raised |-> "none", reported |-> FALSE]
    ELSE [manifest |-> m, written |-> FALSE, raised |-> "none", reported |-> TRUE]

\* remove_package(package_name): the manifest it leaves, the exception it
\* raises, and whether it logged an error or a warning
remove_package(env, m, package_name, run) ==
    IF ~env THEN [manifest |-> m, written |-> FALSE, raised |-> "none", reported |-> TRUE]
    ELSE IF ~run.found THEN [manifest |-> m, written |-> FALSE, raised |-> "LuvError", reported |-> TRUE]
    ELSE IF run.returncode = 0
    THEN [manifest |-> IF Listed(package_name, get_requirements(m))
                       THEN [exists |-> TRUE,
                             lines |-> sorted(Others(get_requirements(m), package_name))]
                       ELSE m,
          written |-> Listed(package_name, get_requirements(m)),
          raised |-> "none", reported |-> FALSE]
    ELSE IF run.notInstalled THEN [manifest |-> m, written |-> FALSE, raised |-> "none", reported |-> FALSE]
    ELSE [manifest |-> m, written |-> FALSE, raised |-> "none", reported |-> TRUE]

\* How install_package_smart ends: True, False, or LuvError (no tlmgr)
InstallResults == {"installed", "failed", "LuvError"}

\* How env.compile() ends when an environment exists, or by Ctrl-C
CompileResults == {"success", "failure", "LuvError", "KeyboardInterrupt"}

\* The answers to the prompt of resolve: a line, or end of input
Responses == {"y", "n", "EOF"}

\* the exception handlers of main(), and sys.exit(1) inside compile()
ExitCode(exception) == IF exception = "none" THEN 0 ELSE 1

\* A variant of the resolve command in which --update wins over --dry-run.
ResolveArguments_update_first(dry_run, update) ==
    IF update THEN [update_requirements |-> "True", interactive |-> FALSE]
    ELSE IF dry_run THEN [update_requirements |-> "False", interactive |-> FALSE]
    ELSE [update_requirements |-> "None", interactive |-> TRUE]

\* The arguments the resolve command gives env.resolve_dependencies
ResolveArguments(dry_run, update) ==
    IF dry_run THEN [update_requirements |-> "False", interactive |-> FALSE]
    ELSE IF update THEN [update_requirements |-> "True", interactive |-> FALSE]
    ELSE [update_requirements |-> "None", interactive |-> TRUE]

NoArguments == [update_requirements |-> "none", interactive |-> FALSE]

\* The flags of a resolve command with the arguments they lead to
Invocation(dry_run, update) ==
    [dry_run |-> dry_run, update |-> update, args |-> ResolveArguments(dry_run, update)]

NoInvocation == [dry_run |-> FALSE, update |-> FALSE, args |-> NoArguments]

\* resolver.resolve_package_name(package) with the tlmgr search stubbed
ResolveName(latex_package) ==
    IF latex_package \in CORE_PACKAGES THEN "None" ELSE stub[latex_package]

\* the display loops of env.resolve_dependencies call resolve_package_name
\* for every explicit and every suggested identifier that is not core
DisplayRaises(r) ==
    \E pkg \in r.explicitly_used \cup r.found_packages :
        pkg \notin CORE_PACKAGES /\ ResolveName(pkg) = "raise"

\* env.resolve_dependencies(update_requirements, interactive), given what its
\* new PackageResolver does (r) and the answer to its prompt
env_resolve_dependencies(m, args, r, response) ==
    IF ~tree[MainLocation].exists
    THEN [manifest |-> m, written |-> FALSE, raised |-> "LuvError", prompted |-> FALSE]
    ELSE LET missing_packages == set(r.resolved) \ set(get_requirements(m))
             asks == /\ args.update_requirements = "None"
                     /\ missing_packages # {}
                     /\ args.interactive
             should_update ==
                 \/ args.update_requirements = "True"
                 \/ asks /\ response = "y"
         IN  IF r.outcome # "returned" \/ DisplayRaises(r)
             THEN [manifest |-> m, written |-> FALSE, raised |-> "Exception",
                   prompted |-> FALSE]
             ELSE [manifest |-> IF should_update
                                THEN _update_requirements_file(m, r.resolved) ELSE m,
                   written |-> should_update, raised |-> "none", prompted |-> asks]

\* runs of main() in one behaviour
MaxCommands == 2

InitCli(envs, manifests) ==
    /\ envExists \in envs
    /\ manifest \in manifests
    /\ command = "none"
    /\ package = "none"
    /\ tool = NoRemoveRun
    /\ passed = NoInvocation
    /\ written = FALSE
    /\ prompted = FALSE
    /\ attempts = <<>>
    /\ failed_packages = <<>>
    /\ reported = FALSE
    /\ raised = "none"
    /\ exit = 0
    /\ ncmds = 0

IdleCli == InitCli({TRUE}, {NoManifest})

\* What a run of main() leaves when it does none of the things below
Quiet ==
    /\ package' = "none"
    /\ tool' = NoRemoveRun
    /\ passed' = NoInvocation
    /\ written' = FALSE
    /\ prompted' = FALSE
    /\ attempts' = <<>>
    /\ failed_packages' = <<>>

\* luv resolve [--dry-run] [--[no-]update]
MainResolve ==
    /\ ncmds < MaxCommands
    /\ ncmds' = ncmds + 1
    /\ command' = "resolve"
    /\ \E scan \in {resolve_dependencies({}, {})} :
       \E dry_run \in BOOLEAN, update \in BOOLEAN, response \in Responses :
         \E r \in {env_resolve_dependencies(manifest, ResolveArguments(dry_run, update),
                                            scan, response)} :
           /\ passed' = Invocation(dry_run, update)
           /\ manifest' = r.manifest
           /\ written' = r.written
           /\ prompted' = r.prompted
           /\ raised' = r.raised
           /\ reported' = (r.raised # "none")
           /\ exit' = ExitCode(r.raised)
    /\ package' = "none" /\ tool' = NoRemoveRun
    /\ attempts' = <<>> /\ failed_packages' = <<>>
    /\ UNCHANGED envExists
    /\ UNCHANGED <<compileVars, resolverVars, treeVars, callVars>>

\* The names given to luv add and luv remove
Arguments == {"amsmath", "tikz", "url"}

\* luv add PACKAGE
MainAdd ==
    /\ ncmds < MaxCommands
    /\ ncmds' = ncmds + 1
    /\ command' = "add"
    /\ \E name \in Arguments, installed \in InstallResults :
         LET resolved_name == ResolveName(name)
             failed == ~envExists \/ installed # "installed"
         IN  IF resolved_name = "raise"
             THEN /\ package' = "none" /\ raised' = "Exception" /\ reported' = TRUE
                  /\ written' = FALSE /\ UNCHANGED manifest
             ELSE IF resolved_name = "None"
             THEN /\ package' = "none" /\ raised' = "none" /\ reported' = FALSE
                  /\ written' = FALSE /\ UNCHANGED manifest
             ELSE IF envExists /\ installed = "LuvError"
             THEN /\ package' = resolved_name /\ raised' = "LuvError" /\ reported' = TRUE
                  /\ written' = FALSE /\ UNCHANGED manifest
             ELSE IF Listed(resolved_name, get_requirements(manifest))
             THEN /\ package' = resolved_name /\ raised' = "none" /\ reported' = failed
                  /\ written' = FALSE /\ UNCHANGED manifest
             ELSE IF ~manifest.exists
             THEN /\ package' = resolved_name /\ raised' = "Exception" /\ reported' = TRUE
                  /\ written' = FALSE /\ UNCHANGED manifest
             ELSE /\ package' = resolved_name /\ raised' = "none" /\ reported' = failed
                  /\ written' = TRUE
                  /\ manifest' = Appended(manifest, resolved_name)
    /\ exit' = ExitCode(raised')
    /\ tool' = NoRemoveRun /\ passed' = NoInvocation /\ prompted' = FALSE
    /\ attempts' = <<>> /\ failed_packages' = <<>>
    /\ UNCHANGED envExists
    /\ UNCHANGED <<compileVars, resolverVars, treeVars, callVars>>

\* luv remove PACKAGE
MainRemove ==
    /\ ncmds < MaxCommands
    /\ ncmds' = ncmds + 1
    /\ command' = "remove"
    /\ \E name \in Arguments, run \in RemoveRuns :
         LET resolved_name == ResolveName(name)
             r == remove_package(envExists, manifest, resolved_name, run)
         IN  IF resolved_name = "raise"
             THEN /\ package' = "none" /\ tool' = NoRemoveRun
                  /\ raised' = "Exception" /\ reported' = TRUE
                  /\ written' = FALSE /\ UNCHANGED manifest
             ELSE IF resolved_name = "None"
             THEN /\ package' = "none" /\ tool' = NoRemoveRun
                  /\ raised' = "none" /\ reported' = FALSE
                  /\ written' = FALSE /\ UNCHANGED manifest
             ELSE /\ package' = resolved_name
                  /\ tool' = IF envExists THEN run ELSE NoRemoveRun
                  /\ raised' = r.raised /\ reported' = r.reported
                  /\ manifest' = r.manifest /\ written' = r.written
    /\ exit' = ExitCode(raised')
    /\ passed' = NoInvocation /\ prompted' = FALSE
    /\ attempts' = <<>> /\ failed_packages' = <<>>
    /\ UNCHANGED envExists
    /\ UNCHANGED <<compileVars, resolverVars, treeVars, callVars>>

\* the install_package_smart calls of sync, one per element of package_names
Attempted(package_names, results) ==
    [i \in DOMAIN package_names |-> [name |-> package_names[i], result |-> results[i]]]

\* A variant of the loop over the futures of sync that stops at an exception.
RECURSIVE Failures_stops(_)
Failures_stops(done) ==
    IF done = <<>> THEN <<>>
    ELSE IF Head(done).result = "LuvError" THEN <<Head(done).name>>
    ELSE IF Head(done).result = "failed" THEN <<Head(done).name>> \o Failures_stops(Tail(done))
    ELSE Failures_stops(Tail(done))

\* failed_packages after the loop over the futures
RECURSIVE Failures(_)
Failures(done) ==
    IF done = <<>> THEN <<>>
    ELSE IF Head(done).result # "installed" THEN <<Head(done).name>> \o Failures(Tail(done))
    ELSE Failures(Tail(done))

\* luv sync
MainSync ==
    /\ ncmds < MaxCommands
    /\ ncmds' = ncmds + 1
    /\ command' = "sync"
    /\ LET requirements == get_requirements(manifest)
           package_names == [i \in DOMAIN requirements |-> StripVersion(requirements[i])]
       IN  IF requirements = <<>>
           THEN /\ attempts' = <<>> /\ failed_packages' = <<>>
                /\ raised' = "none" /\ reported' = FALSE
           ELSE \E tlmgr \in BOOLEAN :
                IF ~envExists \/ ~tlmgr
                THEN /\ attempts' = <<>> /\ failed_packages' = <<>>
                     /\ raised' = "LuvError" /\ reported' = TRUE
                ELSE \E results \in [DOMAIN package_names -> InstallResults] :
                     /\ attempts' = Attempted(package_names, results)
                     /\ failed_packages' = Failures(attempts')
                     /\ raised' = "none"
                     /\ reported' = (failed_packages' # <<>>)
    /\ exit' = ExitCode(raised')
    /\ package' = "none" /\ tool' = NoRemoveRun
    /\ passed' = NoInvocation /\ written' = FALSE /\ prompted' = FALSE
    /\ UNCHANGED <<envExists, manifest>>
    /\ UNCHANGED <<compileVars, resolverVars, treeVars, callVars>>

\* luv compile
MainCompile ==
    /\ ncmds < MaxCommands
    /\ ncmds' = ncmds + 1
    /\ command' = "compile"
    /\ IF ~envExists
       THEN raised' = "none" /\ reported' = TRUE
       ELSE \E r \in CompileResults :
            /\ raised' = CASE r = "success" -> "none"
                           [] r = "failure" -> "SystemExit"
                           [] OTHER -> r
            /\ reported' = (r # "success")
    /\ exit' = ExitCode(raised')
    /\ Quiet
    /\ UNCHANGED <<envExists, manifest>>
    /\ UNCHANGED <<compileVars, resolverVars, treeVars, callVars>>

----------------------------------------------------------------------------
(* LaTeXEnvironment.install_package_smart and _try_install_package *)

\* tlmgr is not installed: subprocess.run raises FileNotFoundError.
NoInstallRun == [found |-> FALSE, returncode |-> 0, already |-> FALSE, updmap |-> FALSE]

\* One run of 'tlmgr --usermode install ...' as _try_install_package reads it:
\* its exit code, whether 'already installed' is in stdout or stderr, and
\* whether 'updmap' is in stderr with 'install:' in stdout
InstallRuns ==
    {NoInstallRun} \cup
    [found : {TRUE}, returncode : {0, 1}, already : BOOLEAN, updmap : BOOLEAN]

\* How _setup_tlmgr_user_mode finds the session: _tlmgr_initialized already
\* set, init-usertree run now, or tlmgr not found
Setups == {"initialized", "ran", "missing"}

\* The tests after each of the two runs of tlmgr install
Accepted(run) == run.returncode = 0 \/ run.already \/ run.updmap

\* _try_install_package(package_name): the runs of tlmgr install it makes
\* (first with --no-depends-at-all, then without) and what it returns
_try_install_package(setup, first, second) ==
    IF setup = "missing" THEN [runs |-> <<>>, result |-> "LuvError"]
    ELSE IF ~first.found THEN [runs |-> <<first>>, result |-> "LuvError"]
    ELSE IF Accepted(first) THEN [runs |-> <<first>>, result |-> "True"]
    ELSE IF ~second.found THEN [runs |-> <<first, second>>, result |-> "LuvError"]
    ELSE [runs |-> <<first, second>>,
          result |-> IF Accepted(second) THEN "True" ELSE "False"]

Attempt(package_name, try) ==
    [name |-> package_name, runs |-> try.runs, result |-> try.result]

\* No call of install_package_smart yet
NoInstall == [name |-> "none", exists |-> FALSE, tries |-> <<>>,
              resolved |-> "unasked", returned |-> "none"]

\* A variant that tries again whenever the resolver answers a name.
Retries_any_name(package_name, resolved_package) == resolved_package # "None"

\* if resolved_package and resolved_package != package_name
Retries(package_name, resolved_package) ==
    resolved_package # "None" /\ resolved_package # package_name

\* install_package_smart(package_name): exists is self.exists(), direct and
\* second are the two calls of _try_install_package it may make, and
\* resolved_package is the resolver's answer
install_package_smart(exists, package_name, direct, resolved_package, second) ==
    LET call == [NoInstall EXCEPT !.name = package_name, !.exists = exists]
        one == <<Attempt(package_name, direct)>>
    IN  IF ~exists THEN [call EXCEPT !.returned = "LuvError"]
        ELSE IF direct.result # "False"
        THEN [call EXCEPT !.tries = one, !.returned = direct.result]
        ELSE IF Retries(package_name, resolved_package)
        THEN [call EXCEPT !.tries = Append(one, Attempt(resolved_package, second)),
                          !.resolved = resolved_package,
                          !.returned = second.result]
        ELSE [call EXCEPT !.tries = one, !.resolved = resolved_package,
                          !.returned = "False"]

\* No run of the body of resolve_package_name yet
NoLookup == [id |-> "none", run |-> TlmgrMissing, value |-> "none", searched |-> FALSE]

\* No executor
NoPool == [kind |-> "none", items |-> <<>>, max_workers |-> 0, threads |-> 0,
           submitted |-> 0, started |-> 0, done |-> {}]

IdleCalls == lookup = NoLookup /\ install = NoInstall /\ pool = NoPool

\* env.install_package_smart(package_name), once
InstallPackageSmart ==
    /\ install = NoInstall
    /\ \E exists \in BOOLEAN, package_name \in Identifiers, setup \in Setups,
          a1 \in InstallRuns, a2 \in InstallRuns, b1 \in InstallRuns, b2 \in InstallRuns :
       \E out \in BodyOutcomes[package_name] :
          install' = install_package_smart(exists, package_name,
                         _try_install_package(setup, a1, a2), out.value,
                         _try_install_package("initialized", b1, b2))
    /\ UNCHANGED <<lookup, pool>>
    /\ UNCHANGED <<compileVars, resolverVars, treeVars, cliVars>>

----------------------------------------------------------------------------
(* The thread pools of resolve_dependencies and sync *)

\* the cap on the workers of resolve_dependencies
resolve_workers == 8

\* the cap on the workers of sync
sync_workers == 4

\* candidates of one resolve_dependencies
MaxCandidates == 9

\* requirements of one sync
MaxInstalls == 5

min(a, b) == IF a <= b THEN a ELSE b

max(a, b) == IF a >= b THEN a ELSE b

\* A variant of the pool size without the cap.
max_workers_uncapped(cap, n) == max(1, n)

\* mw = min(cap, max(1, len(...)))
max_workers(cap, n) == min(cap, max(1, n))

\* The candidate sets of a call, the identifiers written as numbers
CandidateSets == {1..n : n \in 0..MaxCandidates}

\* The package_names of a sync that reaches the executor: at least one name;
\* a name can occur twice
InstallLists ==
    UNION {[1..n -> {"amsmath", "tikz"}] : n \in 1..MaxInstalls}

\* The work items a worker thread is running
InFlight == (1..pool.started) \ pool.done

\* with ThreadPoolExecutor(max_workers=mw) as executor: in
\* resolve_dependencies over all_packages, or in sync over package_names
PoolOpen ==
    /\ pool = NoPool
    /\ \/ \E all_packages \in CandidateSets :
            pool' = [NoPool EXCEPT
                       !.kind = "resolve",
                       !.items = list(all_packages),
                       !.max_workers = max_workers(resolve_workers,
                                                   Cardinality(all_packages))]
       \/ \E package_names \in InstallLists :
            pool' = [NoPool EXCEPT
                       !.kind = "sync",
                       !.items = package_names,
                       !.max_workers = max_workers(sync_workers, Len(package_names))]
    /\ UNCHANGED <<lookup, install>>
    /\ UNCHANGED <<compileVars, resolverVars, treeVars, cliVars>>

\* executor.submit(...) for the next element: the work item is queued, and a
\* thread is started if none is idle and fewer than max_workers exist
PoolSubmit ==
    /\ pool.kind # "none"
    /\ pool.submitted < Len(pool.items)
    /\ LET idle == pool.threads - Cardinality(InFlight)
       IN  pool' = [pool EXCEPT
                      !.submitted = @ + 1,
                      !.threads = IF idle = 0 /\ @ < pool.max_workers
                                  THEN @ + 1 ELSE @]
    /\ UNCHANGED <<lookup, install>>
    /\ UNCHANGED <<compileVars, resolverVars, treeVars, cliVars>>

\* An idle worker thread takes the oldest queued work item and runs it
PoolStart ==
    /\ pool.kind # "none"
    /\ pool.started < pool.submitted
    /\ Cardinality(InFlight) < pool.threads
    /\ pool' = [pool EXCEPT !.started = @ + 1]
    /\ UNCHANGED <<lookup, install>>
    /\ UNCHANGED <<compileVars, resolverVars, treeVars, cliVars>>

\* A work item returns or raises; its thread is idle again
PoolFinish ==
    /\ pool.kind # "none"
    /\ \E i \in InFlight : pool' = [pool EXCEPT !.done = @ \cup {i}]
    /\ UNCHANGED <<lookup, install>>
    /\ UNCHANGED <<compileVars, resolverVars, treeVars, cliVars>>

\* The end of the with block, which waits for every work item
PoolClose ==
    /\ pool.kind # "none"
    /\ pool.submitted = Len(pool.items)
    /\ pool.done = 1..Len(pool.items)
    /\ pool' = NoPool
    /\ UNCHANGED <<lookup, install>>
    /\ UNCHANGED <<compileVars, resolverVars, treeVars, cliVars>>

\* One run of the body of resolve_package_name (a call that misses the cache)
\* with the run of tlmgr search it makes, once
Lookup ==
    /\ lookup = NoLookup
    /\ \E id \in Identifiers, run \in TlmgrRuns :
         \E out \in {ResolveBody(id, run)} :
            lookup' = [id |-> id, run |-> run, value |-> out.value,
                       searched |-> out.searched]
    /\ UNCHANGED <<install, pool>>
    /\ UNCHANGED <<compileVars, resolverVars, treeVars, cliVars>>

----------------------------------------------------------------------------
(* Specifications *)

\* The entry files the full runs of compile() start from: at most one
\* signature of each family and at most one biblatex declaration.
SeqContents ==
    {c \in Contents : /\ Cardinality(c.sigs \cap BibPatterns) <= 1
                      /\ Cardinality(c.sigs \cap CitePatterns) <= 1
                      /\ Len(c.decls) <= 1}

\* compile() from start to end
Init == InitCompile(SeqContents) /\ InitResolver /\ IdleTree /\ IdleCli /\ IdleCalls

Next == Compile \/ CompileSinglePass \/ RunLatexPass \/ RunBibliography

Spec == Init /\ [][Next]_vars

\* The detection functions and the gate of compile(), over every entry file
InitDetect ==
    InitCompile(Contents) /\ pdf = FALSE /\ aux = FALSE /\ InitResolver /\ IdleTree /\ IdleCli /\ IdleCalls

NextDetect == Compile

SpecDetect == InitDetect /\ [][NextDetect]_vars

\* _run_latex_pass called on its own
InitPass == InitCompile({EmptyContent}) /\ texfile = "ok" /\ InitResolver /\ IdleTree /\ IdleCli /\ IdleCalls

NextPass == CallLatexPass

SpecPass == InitPass /\ [][NextPass]_vars

\* _compile_single_pass called on its own
NextSingle == CallSinglePass

SpecSingle == InitPass /\ [][NextSingle]_vars

\* One process using PackageResolver objects
InitNames ==
    /\ InitCompile({EmptyContent}) /\ texfile = "ok" /\ ~bibFiles /\ ~pdf /\ ~aux
    /\ InitResolver
    /\ IdleTree
    /\ IdleCli
    /\ IdleCalls

NextNames == NewResolver \/ ResolvePackageName

SpecNames == InitNames /\ [][NextNames]_vars

\* The compile() state of a process that never compiles
IdleCompile == InitCompile({EmptyContent}) /\ texfile = "ok" /\ ~bibFiles /\ ~pdf /\ ~aux

\* One resolve_dependencies over every project layout
InitScan ==
    /\ IdleCompile /\ InitResolver /\ IdleCli /\ IdleCalls
    /\ InitTree(DeepTrees, {{}, {"foo"}, {"tikz"}, {"foo", "tikz"}}, {Identity}, BOOLEAN)

NextScan == ResolveDependencies

SpecScan == InitScan /\ [][NextScan]_vars

\* Calls of resolve_dependencies on one resolver while the entry file changes
InitResolve ==
    /\ IdleCompile /\ InitResolver /\ IdleCli /\ IdleCalls
    /\ InitTree(FlatTrees, {{}, {"foo"}}, Stubs, {TRUE})

NextResolve == ResolveDependencies \/ EditTree

SpecResolve == InitResolve /\ [][NextResolve]_vars

\* The two batch operations: resolving the candidates and installing the
\* requirements, with workers that fail
BatchTrees ==
    {[EmptyTree EXCEPT ![MainLocation] = File(<<d>>, m, <<>>)] :
        d \in {<<"amsmath">>, <<"biblatex">>}, m \in {{}, {"\\begin{tikzpicture}"}}}

BatchStubs == {Identity} \cup {[Identity EXCEPT ![p] = "raise"] : p \in {"amsmath", "biblatex", "tikz"}}

InitBatch ==
    /\ IdleCompile /\ InitResolver
    /\ InitTree(BatchTrees, {{}}, BatchStubs, {TRUE})
    /\ InitCli({TRUE}, Manifests \ {NoManifest})
    /\ IdleCalls

NextBatch == ResolveDependencies \/ MainSync

SpecBatch == InitBatch /\ [][NextBatch]_vars

\* Projects of one file that declare biblatex or its companions
ExpandUses ==
    {<<>>, << <<"amsmath">> >>, << <<"biblatex">> >>, << <<"logreq">> >>,
     << <<"biblatex", "logreq">> >>, << <<"biblatex">>, <<"etoolbox">> >>}

ExpandTrees ==
    {[EmptyTree EXCEPT ![MainLocation] = File(u, m, <<>>)] :
        u \in ExpandUses, m \in SUBSET Marks}

\* resolve_dependencies in projects with local style files
InitExpand ==
    /\ IdleCompile /\ InitResolver /\ IdleCli /\ IdleCalls
    /\ InitTree(ExpandTrees, SUBSET {"etoolbox", "logreq", "tikz"}, {Identity}, {TRUE})

NextExpand == ResolveDependencies

SpecExpand == InitExpand /\ [][NextExpand]_vars

\* A project without its entry file
NoTree == [loc \in Locations |-> Missing]

\* The projects the commands run in
CliTrees ==
    {NoTree, EmptyTree,
     [EmptyTree EXCEPT ![MainLocation] =
          File(<< <<"amsmath">> >>, {"\\begin{tikzpicture}"}, <<>>)],
     [EmptyTree EXCEPT ![MainLocation] = File(<<>>, {}, <<T_up>>)]}

CliStubs == {Identity, [Identity EXCEPT !["tikz"] = "pgf"], [Identity EXCEPT !["tikz"] = "raise"]}

\* Runs of main() one after the other in one project
InitMain ==
    /\ IdleCompile /\ InitResolver
    /\ InitTree(CliTrees, {{}}, CliStubs, {TRUE})
    /\ InitCli(BOOLEAN, Manifests)
    /\ IdleCalls

NextMain == MainResolve \/ MainAdd \/ MainRemove \/ MainSync \/ MainCompile

SpecMain == InitMain /\ [][NextMain]_vars

\* One install_package_smart in a fresh process
InitInstall ==
    /\ IdleCompile /\ InitResolver /\ IdleTree /\ IdleCli /\ IdleCalls

NextInstall == InstallPackageSmart

SpecInstall == InitInstall /\ [][NextInstall]_vars

\* One lookup of a name in a fresh process
InitLookup ==
    /\ IdleCompile /\ InitResolver /\ IdleTree /\ IdleCli /\ IdleCalls

NextLookup == Lookup

SpecLookup == InitLookup /\ [][NextLookup]_vars

\* The executors of one process, one batch after the other
InitPool ==
    /\ IdleCompile /\ InitResolver /\ IdleTree /\ IdleCli /\ IdleCalls

NextPool == PoolOpen \/ PoolSubmit \/ PoolStart \/ PoolFinish \/ PoolClose

SpecPool == InitPool /\ [][NextPool]_vars

----------------------------------------------------------------------------
(* Properties of the compilation sequencer *)

IsEngine(e) == e[1] = "engine"
IsProcessor(e) == e[1] # "engine"

\* The engine launches attempted so far, and the bibliography launches
EngineLog == SelectSeq(log, IsEngine)
ProcessorLog == SelectSeq(log, IsProcessor)

\* C1: in the 4-pass sequence a failed pass 1 or pass 3 ends the sequence with
\* failure at once: after a failed pass 1 the log holds exactly the one engine
\* invocation and no bibliography processor was tried; after a failed pass 3
\* there is no 4th engine invocation.
C1_AbortOnFailedPass ==
    /\ verdict[1] = "failed" =>
          /\ pc = "done" /\ result = "failure"
          /\ log = << <<"engine", "ran">> >>
          /\ bib = "none" /\ verdict[3] = "none" /\ verdict[4] = "none"
    /\ verdict[3] = "failed" =>
          /\ pc = "done" /\ result = "failure"
          /\ Len(EngineLog) = 2
          /\ log[Len(log)] = <<"engine", "ran">>
          /\ verdict[4] = "none"

\* C1 witness: the processor ran, then pass 3 was judged failed
C1_Witness == verdict[1] = "ok" /\ bib = "ok" /\ verdict[3] = "failed"

\* C2 (as claimed): whatever the output directory held before, a pass 1 whose
\* engine run wrote no PDF ends the sequence with failure after that single
\* invocation.
C2_NoArtifactAborts ==
    produced = "no" => /\ pc = "done"
                       /\ result = "failure"
                       /\ Len(log) = 1

\* C5: after a successful pass 1 a bibliography processor is tried exactly when
\* the .aux file exists, pass 3 is the next engine invocation in every case, and
\* the result of a completed sequence is the verdict of pass 4 alone.
C5_ProcessorGatedAndNonFatal ==
    /\ [][pc = "bib" =>
            /\ verdict[1] = "ok"
            /\ (Len(ProcessorLog') > Len(ProcessorLog)) <=> aux
            /\ bib' = "skipped" <=> ~aux
            /\ pc' = "pass3"]_vars
    /\ [][pc = "pass3" => /\ Len(log') = Len(log) + 1
                          /\ log'[Len(log')][1] = "engine"]_vars
    /\ [](pc = "done" /\ verdict[4] # "none" =>
            result = (IF verdict[4] = "ok" THEN "success" ELSE "failure"))

\* C5 witness: the processor failed and the sequence still succeeded
C5_Witness == bib = "failed" /\ pc = "done" /\ result = "success"

\* needs_bibliography and has_citations as the decision gate is documented
NeedsBibliography ==
    texfile = "ok" /\ (content.sigs \cap BibPatterns # {} \/ bibFiles)
CitesSomething ==
    texfile = "ok" /\ content.sigs \cap CitePatterns # {}

\* C6: compile() enters the 4-pass sequence exactly when the entry file needs a
\* bibliography (a declaration signature or a .bib file) and has a citation; in
\* every other case it runs one single pass, judges no pass of the sequence and
\* tries no bibliography processor.
C6_GateDecision ==
    mode # "none" =>
        /\ mode = "sequence" <=> (NeedsBibliography /\ CitesSomething)
        /\ mode = "single" =>
              /\ ProcessorLog = <<>>
              /\ bib = "none"
              /\ \A p \in Passes : verdict[p] = "none"
              /\ Len(EngineLog) = (IF pc = "done" THEN 1 ELSE 0)
        /\ mode = "sequence" /\ pc = "done" => verdict[1] # "none" \/ result = "LuvError"

\* C6 witness: a .bib file but no citation: one single pass, then done
C6_Witness ==
    /\ mode = "single" /\ bibFiles /\ content.sigs = {} /\ pc = "done"
    /\ log = << <<"engine", "ran">> >>

\* The biber part of the bibliography launches: entries before the bibtex one
BiberTried == SelectSeq(ProcessorLog, LAMBDA e : e[1] # "bibtex")
BibtexTried == SelectSeq(ProcessorLog, LAMBDA e : e[1] = "bibtex")

\* C8: with the biber backend, the launches are tried in the order system
\* biber, local script, local binary; when none of the three is found bibtex
\* is launched exactly once and its outcome is the outcome of pass 2; a missing
\* binary never raises: the sequence goes on to pass 3.
C8_BiberFallback ==
    (bibliography_backend = "biber" /\ bib \in {"ok", "failed"}) =>
        /\ Len(BiberTried) \in 1..3
        /\ \A i \in 1..Len(BiberTried) :
              /\ BiberTried[i][1] =
                   (CASE i = 1 -> "biber"
                      [] i = 2 -> "scripts/biber/biber.pl"
                      [] i = 3 -> "bin/biber")
              /\ ProcessorLog[i] = BiberTried[i]
              /\ i < Len(BiberTried) => BiberTried[i][2] = "missing"
        /\ (Len(BiberTried) = 3 /\ BiberTried[3][2] = "missing") =>
              /\ Len(BibtexTried) = 1
              /\ bib = (IF BibtexTried[1][2] = "ok" THEN "ok" ELSE "failed")
        /\ BibtexTried # <<>> => Len(BiberTried) = 3 /\ BiberTried[3][2] = "missing"
        /\ pc = "pass3" => result = "none"

\* C8 witness: no biber anywhere, bibtex ran and succeeded
C8_Witness ==
    /\ bibliography_backend = "biber" /\ bib = "ok"
    /\ Len(ProcessorLog) = 4 /\ ProcessorLog[4] = <<"bibtex", "ok">>

----------------------------------------------------------------------------
(* Properties of _run_latex_pass *)

Called == last.run.found

HasMarker(stream) == "Fatal error" \in stream \/ "Emergency stop" \in stream

\* C3: a pass whose engine exits nonzero, with no fatal marker in its captured
\* output and with the PDF present, is reported as success; with no marker and
\* the PDF present the verdict is success whatever the exit code.
C3_ArtifactOverExitCode ==
    (Called /\ ~HasMarker(last.run.stdout) /\ ~HasMarker(last.run.stderr)
            /\ last.pdfExists) => last.ok

\* C3 witness: exit code 1, clean streams, PDF present, success
C3_Witness ==
    /\ Called /\ last.run.returncode = 1 /\ last.run.stdout = {}
    /\ last.run.stderr = {} /\ last.pdfExists /\ last.ok

\* C4 (as claimed): a fatal marker in either captured stream fails the pass
\* although the PDF exists.
C4_MarkerInEitherStream ==
    (Called /\ last.pdfExists
            /\ (HasMarker(last.run.stdout) \/ HasMarker(last.run.stderr))) => ~last.ok

\* C4 (amended): a fatal marker, "Fatal error" or "Emergency stop", in the
\* captured standard output fails the pass although the PDF exists.
C4_MarkerInStdout ==
    (Called /\ last.pdfExists /\ HasMarker(last.run.stdout)) => ~last.ok

\* C4 witness: the PDF exists, stdout holds only "Emergency stop", failure
C4_Witness ==
    /\ Called /\ last.pdfExists /\ last.run.stdout = {"Emergency stop"}
    /\ last.run.returncode = 0 /\ ~last.ok

----------------------------------------------------------------------------
(* Properties of the backend selection *)

Decided == bibliography_backend # "none"

BackendDecls(opt) ==
    {i \in DOMAIN content.decls :
        content.decls[i].bracketed /\ opt \in content.decls[i].opts}

Directives == BackendDecls("backend=biber") \cup BackendDecls("backend=bibtex")

Least(S) == CHOOSE i \in S : \A j \in S : i <= j

----------------------------------------------------------------------------
(* Properties of resolve_package_name *)

CoreIdentifiers == Identifiers \cap CORE_PACKAGES

\* C9: for a core identifier every call of resolve_package_name, first or
\* repeated, on any resolver object, returns null, and tlmgr search is never
\* invoked for it.
C9_CoreIsNull ==
    \A id \in CoreIdentifiers :
        /\ searches[id] = 0
        /\ answers[id] \subseteq {"None"}

\* C9 witness: "url" resolved on two resolver objects and once more from the cache
C9_Witness ==
    /\ ncalls["url"] >= 3
    /\ answers["url"] = {"None"}
    /\ \E i, j \in DOMAIN cache :
          cache[i].key = <<1, "url">> /\ cache[j].key = <<2, "url">>

\* C10 (as claimed): within one process tlmgr search runs at most once per
\* non-core identifier and all calls with the same identifier return the same
\* value, whichever resolver object is used.
C10_OneLookupPerIdentifier ==
    \A id \in Identifiers \ CORE_PACKAGES :
        /\ searches[id] <= 1
        /\ Cardinality(answers[id]) <= 1

----------------------------------------------------------------------------
(* Properties of the scans and of resolve_dependencies *)

\* C11: a name with a <name>.sty file in the project root is in neither the
\* explicit nor the inferred set after the two scans, whether it was declared
\* with \usepackage, alone or in a comma-separated list, or only matched by a
\* catalog signature.
C11_LocalOverrideSuppressed ==
    outcome # "none" =>
        \A name \in sty : name \notin explicitly_used /\ name \notin found_packages

\* C11 witness: foo.sty and tikz.sty exist, the entry file declares
\* \usepackage{amsmath,foo} and draws a tikzpicture, and the scans kept amsmath
C11_Witness ==
    /\ outcome = "returned"
    /\ sty = {"foo", "tikz"}
    /\ tree[MainLocation].uses = << <<"amsmath", "foo">> >>
    /\ tree[MainLocation].marks = {"\\begin{tikzpicture}"}
    /\ explicitly_used = {"amsmath"}

\* The directory of a location, spelled without ".."
CanonDir(loc) == IF loc[1] = 1 THEN <<"sub">> ELSE <<>>

\* The file an include directive of the file at loc refers to, as a set
IncludedFrom(loc, target) ==
    LET near == [dir |-> CanonDir(loc) \o target.dir, name |-> WithTex(target.name)]
    IN  IF Denotes(near) THEN {LocationOf(near)}
        ELSE IF Denotes(FromRoot(target)) THEN {LocationOf(FromRoot(target))}
        ELSE {}

\* The distinct files reachable from the entry file
RECURSIVE ReachFrom(_)
ReachFrom(S) ==
    LET more == S \cup UNION {UNION {IncludedFrom(loc, tree[loc].incl[i]) :
                                        i \in DOMAIN tree[loc].incl} : loc \in S}
    IN  IF more = S THEN S ELSE ReachFrom(more)

Reachable == IF tree[MainLocation].exists THEN ReachFrom({MainLocation}) ELSE {}

\* The sets a scan of each reachable file's text, once each, produces
OnceExplicit == UNION {Declared(tree[loc]) : loc \in Reachable}

OnceInferred == UNION {Suggested(tree[loc], OnceExplicit) : loc \in Reachable}

\* C12 (as claimed): on every finite document tree, with include cycles,
\* self-includes and dangling includes, both scans terminate and leave the sets
\* that scanning each distinct reachable file once gives.
C12_ScansTerminateAsOnce ==
    outcome # "none" =>
        /\ outcome = "returned"
        /\ explicitly_used = OnceExplicit
        /\ found_packages = OnceInferred \cup Expansion(OnceExplicit \cup OnceInferred)

\* The same comparison for the calls that return
ReturnedAsOnce ==
    outcome = "returned" =>
        /\ explicitly_used = OnceExplicit
        /\ found_packages = OnceInferred \cup Expansion(OnceExplicit \cup OnceInferred)

\* The latest call, and whether the tree is still the one it read
LastCall == calls[Len(calls)]

Fresh == calls # <<>> /\ LastCall.tree = tree

\* C13: resolve_dependencies is a function of the current document tree only.
\* Two calls that read the same tree (the name resolver being deterministic)
\* end the same way, return the same list and leave the same sets; and what a
\* call leaves holds nothing of an earlier call on another tree: its sets are
\* those of one scan of the tree it read, and every name it returns is the
\* resolver's answer for a candidate of that tree.
C13_FunctionOfTree ==
    /\ \A i, j \in DOMAIN calls :
          calls[i].tree = calls[j].tree =>
              /\ calls[i].outcome = calls[j].outcome
              /\ calls[i].resolved = calls[j].resolved
              /\ calls[i].explicitly_used = calls[j].explicitly_used
              /\ calls[i].found_packages = calls[j].found_packages
    /\ Fresh /\ outcome = "returned" =>
          /\ explicitly_used = OnceExplicit
          /\ found_packages = OnceInferred \cup Expansion(OnceExplicit \cup OnceInferred)
          /\ \A i \in DOMAIN resolved :
                \E p \in OnceExplicit \cup OnceInferred : resolved[i] = stub[p]

\* C13 witness: a call on a tree that declares biblatex, then a call on the
\* edited, empty tree that leaves nothing
C13_Witness ==
    /\ Len(calls) = 2
    /\ calls[1].tree # calls[2].tree
    /\ calls[1].explicitly_used = {"biblatex"}
    /\ "logreq" \in calls[1].found_packages
    /\ calls[1].resolved # <<>>
    /\ calls[2].explicitly_used = {}
    /\ calls[2].found_packages = {}
    /\ calls[2].resolved = <<>>

\* Every \usepackage target of the reachable files
AllTargets ==
    UNION {UNION {{tree[loc].uses[i][j] : j \in DOMAIN tree[loc].uses[i]} :
                    i \in DOMAIN tree[loc].uses} : loc \in Reachable}

\* The catalog entries not declared, with a signature in a reachable file
Matched ==
    {p \in DOMAIN PACKAGE_PATTERNS :
        /\ p \notin AllTargets
        /\ \E loc \in Reachable, pattern \in PACKAGE_PATTERNS[p] :
              PatternSearch(pattern, tree[loc])}

Candidates == AllTargets \cup Matched

\* The non-null answers of the resolver for a set of identifiers
Answers(S) == {stub[p] : p \in S} \ {"None", "raise"}

\* str's order on a list: strictly ascending, so without duplicates
Ascending(seq) == \A i, j \in DOMAIN seq : i < j => Rank(seq[i]) < Rank(seq[j])

Elements(seq) == {seq[i] : i \in DOMAIN seq}

\* C14: without local .sty files, resolve_dependencies returns the sorted,
\* duplicate-free list of the non-null resolver answers for the \usepackage
\* targets of the reachable files and the catalog entries not declared that
\* have a matching signature; the names the biblatex expansion adds are not
\* submitted to the resolver unless they were candidates already.
C14_SortedResolvedCandidates ==
    Fresh /\ outcome = "returned" /\ sty = {} =>
        /\ Ascending(resolved)
        /\ Elements(resolved) = Answers(Candidates)
        /\ \A p \in Packages : submitted[p] > 0 <=> p \in Candidates

\* C14 witness: \usepackage{amsmath} and a tikzpicture with the identity
\* resolver give [amsmath, tikz]
C14_Witness ==
    /\ Fresh /\ outcome = "returned" /\ sty = {}
    /\ stub = Identity
    /\ tree[MainLocation].uses = << <<"amsmath">> >>
    /\ tree[MainLocation].marks = {"\\begin{tikzpicture}"}
    /\ resolved = <<"amsmath", "tikz">>

\* C15: after resolve_dependencies returns, logreq and etoolbox are in
\* found_packages if biblatex is a candidate (declared or inferred); if it is
\* not, found_packages is what the pattern scan left.
C15_BiblatexExpansion ==
    Fresh /\ outcome = "returned" =>
        /\ "biblatex" \in explicitly_used \cup found_packages =>
              {"logreq", "etoolbox"} \subseteq found_packages
        /\ "biblatex" \notin explicitly_used \cup found_packages =>
              found_packages = OnceInferred

\* C15 witness: biblatex inferred from \printbibliography alone: the expansion
\* adds the two names, which were no candidates and are not returned
C15_Witness ==
    /\ Fresh /\ outcome = "returned"
    /\ stub = Identity
    /\ explicitly_used = {}
    /\ found_packages = {"biblatex", "logreq", "etoolbox"}
    /\ resolved = <<"biblatex">>

\* The names sync hands to install_package_smart
PackageNames ==
    [i \in DOMAIN get_requirements(manifest) |-> StripVersion(get_requirements(manifest)[i])]

\* C16: in both batch operations every item is submitted exactly once and a
\* worker that fails or raises takes nothing else with it.  After a returning
\* resolve_dependencies each candidate was submitted once and nothing else was,
\* and the list holds the answer of every candidate whose worker gave one,
\* whatever the other workers did; after a sync that reached its batch there
\* is one install attempt per requirement, in order, and failed_packages lists
\* exactly the requirements whose attempt returned False or raised.
C16_BatchIsolation ==
    /\ Fresh /\ outcome = "returned" =>
          /\ \A p \in Packages :
                submitted[p] = IF p \in OnceExplicit \cup OnceInferred THEN 1 ELSE 0
          /\ \A p \in OnceExplicit \cup OnceInferred :
                stub[p] \notin {"None", "raise"} <=> stub[p] \in Elements(resolved)
    /\ command = "sync" /\ raised = "none" =>
          /\ Len(attempts) = Len(PackageNames)
          /\ \A i \in DOMAIN attempts : attempts[i].name = PackageNames[i]
          /\ failed_packages =
                 [i \in 1..Len(failed_packages) |->
                     SelectSeq(attempts, LAMBDA a : a.result # "installed")[i].name]
          /\ Len(failed_packages) =
                 Len(SelectSeq(attempts, LAMBDA a : a.result # "installed"))

\* C16 witness: the worker of one candidate raised and the other candidate is
\* in the list; the first install raised, the second was still attempted and
\* succeeded, and only the first is listed as failed
C16_Witness ==
    /\ Fresh /\ outcome = "returned"
    /\ \E p \in explicitly_used \cup found_packages : stub[p] = "raise"
    /\ resolved # <<>>
    /\ command = "sync"
    /\ Len(attempts) = 2
    /\ attempts[1].result = "LuvError" /\ attempts[2].result = "installed"
    /\ failed_packages = <<attempts[1].name>>

----------------------------------------------------------------------------
(* Properties of the manifest and of main() *)

\* C17 (as claimed): every write of the requirements manifest, by resolve
\* with update, by add or by remove, writes a list that is sorted and free of
\* duplicates.
C17_WritesSortedDeduplicated == written => Ascending(manifest.lines)

\* C18 (as claimed): every run of main() that reported a failure ends with
\* exit code 1.
C18_ReportedFailureExitsOne == reported => exit = 1

\* C19: a resolve command with --dry-run, with or without --update, calls
\* env.resolve_dependencies(update_requirements=False, interactive=False),
\* leaves the manifest as it was, writes nothing and asks nothing.
C19_DryRunIsReadOnly ==
    /\ [](command = "resolve" /\ passed.dry_run =>
             /\ passed.args = [update_requirements |-> "False", interactive |-> FALSE]
             /\ ~written
             /\ ~prompted)
    /\ [][command' = "resolve" /\ ncmds' = ncmds + 1 /\ passed'.dry_run =>
             manifest' = manifest]_vars

\* C19 witness: resolve --dry-run --update returned normally on a document
\* that declares amsmath while the manifest lists only tikz
C19_Witness ==
    /\ command = "resolve" /\ passed.dry_run /\ passed.update
    /\ raised = "none"
    /\ tree[MainLocation].uses = << <<"amsmath">> >>
    /\ manifest = [exists |-> TRUE, lines |-> <<"tikz">>]

\* How often a requirement occurs in a list
Count(name, requirements) == Cardinality({i \in DOMAIN requirements : requirements[i] = name})

\* The remove command reached remove_package in an existing environment
Removing == command' = "remove" /\ ncmds' = ncmds + 1 /\ package' # "none" /\ envExists

\* C20 (as claimed): remove_package rewrites the manifest only when the
\* installer exits with code 0 and the name is listed, the rewritten manifest
\* holds every previous requirement except the name, and when the installer
\* reports 'not installed' or fails otherwise the manifest is unchanged and no
\* error is raised.
C20_RemoveRewritesOnSuccess ==
    [][Removing =>
         /\ written' => /\ tool'.found /\ tool'.returncode = 0
                         /\ Listed(package', get_requirements(manifest))
                         /\ \A n \in set(manifest.lines) \cup set(manifest'.lines) :
                               Count(n, manifest'.lines) =
                                  IF n = package' THEN 0 ELSE Count(n, manifest.lines)
         /\ tool'.notInstalled \/ ~tool'.found \/ tool'.returncode # 0 =>
               /\ ~written' /\ manifest' = manifest
               /\ raised' = "none"]_vars

\* C20 (amended): remove_package rewrites the manifest exactly when the
\* installer exits with code 0 and the name is listed, whatever the installer
\* printed; the rewritten manifest is the sorted list of every previous
\* requirement other than the name.  When the installer exits with another
\* code the manifest is unchanged and no error is raised; when tlmgr cannot
\* be started the manifest is unchanged and LuvError is raised.
C20_RemoveRewritesOnExitZero ==
    [][Removing =>
         /\ written' <=> /\ tool'.found /\ tool'.returncode = 0
                          /\ Listed(package', get_requirements(manifest))
         /\ written' =>
               /\ \A n \in set(manifest.lines) \cup set(manifest'.lines) :
                     Count(n, manifest'.lines) =
                        IF n = package' THEN 0 ELSE Count(n, manifest.lines)
               /\ \A i, j \in DOMAIN manifest'.lines :
                     i < j => Rank(manifest'.lines[i]) <= Rank(manifest'.lines[j])
         /\ ~written' => manifest' = manifest
         /\ tool'.found /\ tool'.returncode # 0 => ~written' /\ raised' = "none"
         /\ ~tool'.found => ~written' /\ raised' = "LuvError"]_vars

\* C20 witness: tlmgr exited with code 0 and printed 'not installed'; tikz was
\* listed and the manifest was rewritten without it
C20_Witness ==
    /\ command = "remove" /\ package = "tikz"
    /\ tool.found /\ tool.returncode = 0 /\ tool.notInstalled
    /\ written
    /\ manifest = [exists |-> TRUE, lines |-> <<"amsmath">>]

----------------------------------------------------------------------------
(* Properties of install_package_smart *)

\* C21: install_package_smart(name) makes at most two install attempts, the
\* first with name.  When the direct attempt succeeds it returns true after
\* that one attempt.  When the direct attempt fails it asks the resolver, and
\* makes a second attempt, with the resolved name, exactly when that name is
\* non-null and differs from name; it then returns that attempt's outcome.
\* In the remaining cases it returns false with no second attempt.
C21_AtMostTwoAttempts ==
    install.returned # "none" /\ install.exists =>
        LET tries == install.tries IN
        /\ Len(tries) \in {1, 2}
        /\ tries[1].name = install.name
        /\ tries[1].result = "True" =>
              Len(tries) = 1 /\ install.returned = "True"
        /\ tries[1].result = "False" =>
              /\ install.resolved # "unasked"
              /\ IF install.resolved \notin {"None", install.name}
                 THEN /\ Len(tries) = 2
                      /\ tries[2].name = install.resolved
                      /\ install.returned = tries[2].result
                 ELSE Len(tries) = 1 /\ install.returned = "False"
        /\ Len(tries) = 2 => tries[1].result = "False"

\* C21 witness: the direct attempt fails, the resolver answers another name,
\* and the attempt with that name succeeds
C21_Witness ==
    /\ install.name = "tikz"
    /\ Len(install.tries) = 2
    /\ install.tries[1].result = "False"
    /\ install.tries[2].name = "pgf"
    /\ install.returned = "True"

----------------------------------------------------------------------------
(* Properties of the parse of tlmgr's output *)

\* The lookup ran tlmgr search and read its output
Parsed == lookup.searched /\ lookup.run.found /\ lookup.run.returncode = 0

\* A candidate line as the comment in the code and the specification define
\* it: not indented, ending with a colon
PlainCandidate(line) == ~line.indented /\ line.colon

\* ... and not one of the two noise names
PlainEligible(line) == PlainCandidate(line) /\ line.text \notin NoiseNames

\* The names of the lines of the output that satisfy a test, in output order
NamesOf(Test(_)) ==
    LET kept == SelectSeq(lookup.run.stdout, Test)
    IN  [i \in DOMAIN kept |-> kept[i].text]

FuzzyLine(line) == Fuzzy(lookup.id, line.text)

\* The selection rule applied to a list of names: the first fuzzy match, else
\* the first name, else the identifier itself
Preferred(names) ==
    LET fuzzy == SelectSeq(names, LAMBDA n : Fuzzy(lookup.id, n))
    IN  IF fuzzy # <<>> THEN fuzzy[1]
        ELSE IF names # <<>> THEN names[1]
        ELSE lookup.id

\* C22 (as claimed): resolve_package_name returns the identifier unchanged
\* whenever the lookup tool is not found, exits nonzero, prints nothing, or
\* prints no eligible candidate line.
C22_PassthroughWithoutCandidate ==
    /\ lookup.searched
    /\ \/ ~lookup.run.found
       \/ lookup.run.returncode # 0
       \/ lookup.run.stdout = <<>>
       \/ NamesOf(PlainEligible) = <<>>
    => lookup.value = lookup.id

\* The same with the lines the loop takes: every line that, stripped, ends
\* with a colon and is not a noise name
PassthroughWithoutTakenLine ==
    /\ lookup.searched
    /\ \/ ~lookup.run.found
       \/ lookup.run.returncode # 0
       \/ lookup.run.stdout = <<>>
       \/ NamesOf(Eligible) = <<>>
    => lookup.value = lookup.id

\* C26 (as claimed): only lines that are not indented and end with a colon
\* are candidates: the name returned is the identifier itself or the name of
\* such a line, never the text of an indented line only.
C26_IndentedNeverCandidate ==
    lookup.searched /\ lookup.value # lookup.id =>
        \E i \in DOMAIN lookup.run.stdout :
           /\ PlainCandidate(lookup.run.stdout[i])
           /\ lookup.run.stdout[i].text = lookup.value

\* C27 (as claimed): among the eligible candidates (not indented, ending with
\* a colon, not a noise name) the first fuzzy match in output order is
\* returned, else the first eligible candidate; a noise name is never returned.
C27_FirstMatchThenFirst ==
    /\ lookup.value \notin NoiseNames
    /\ Parsed /\ NamesOf(PlainEligible) # <<>> =>
          lookup.value = Preferred(NamesOf(PlainEligible))

\* The same rule over the lines the loop takes
FirstMatchAmongTaken ==
    /\ lookup.value \notin NoiseNames
    /\ Parsed /\ NamesOf(Eligible) # <<>> =>
          lookup.value = Preferred(NamesOf(Eligible))

----------------------------------------------------------------------------
(* Properties of the single pass *)

\* C23: the single-pass compile reports success if and only if the engine's
\* exit code is zero, whether or not the output file exists afterwards, and
\* each call invokes the engine exactly once.
C23_SinglePassExitCode ==
    /\ [](pc = "call" /\ result # "LuvError" =>
             /\ last.run.found
             /\ last.ok = (last.run.returncode = 0)
             /\ result = Outcome(last.run.returncode = 0))
    /\ [][pc' = "call" => /\ Len(log') = Len(log) + 1
                          /\ log'[Len(log')][1] = "engine"]_vars

\* C23 witness: a call whose engine run exits with code zero and leaves no
\* output file reports success
C23_Witness ==
    /\ pc = "call" /\ last.run.found
    /\ last.run.returncode = 0 /\ ~last.pdfExists
    /\ result = "success"

----------------------------------------------------------------------------
(* Properties of the walk of the document tree *)

\* The paths in a visited set that name the file at a location
Spellings(visited_files, loc) == {p \in visited_files : LocationOf(p) = loc}

\* C24 (as claimed): during one walk no file is scanned more than once, files
\* being identified by their resolved path: the visited set of a scan never
\* holds two spellings of the same file.
C24_OneScanPerResolvedPath ==
    \A k \in DOMAIN calls : \A w \in 1..2 : \A loc \in Locations :
        Cardinality(Spellings(calls[k].visited[w], loc)) <= 1

----------------------------------------------------------------------------
(* Properties of the inferred set *)

\* The identifiers that are declared or have a local style file
Excluded == explicitly_used \cup sty

\* The companions the biblatex expansion adds
Companions == {"logreq", "etoolbox"}

\* C25 (as claimed): after resolve_dependencies returns, the inferred set is
\* disjoint from the explicit set and holds no identifier with a local style
\* file, on every document tree.
C25_InferredExcludesDeclared ==
    outcome = "returned" => found_packages \cap Excluded = {}

\* C25 (amended): after resolve_dependencies returns, every inferred
\* identifier other than logreq and etoolbox is neither declared nor locally
\* overridden; logreq and etoolbox are inferred whenever biblatex is a
\* candidate, declared or overridden or not, and are otherwise subject to the
\* same exclusion.
C25_InferredExcludesDeclaredButCompanions ==
    outcome = "returned" =>
        /\ (found_packages \ Companions) \cap Excluded = {}
        /\ IF "biblatex" \in explicitly_used \cup found_packages
           THEN Companions \subseteq found_packages
           ELSE found_packages \cap Excluded = {}

\* C25 witness: biblatex is declared, etoolbox has a local style file and
\* logreq is declared too: both are in the inferred set, with tikz, which a
\* pattern suggested
C25_Witness ==
    /\ outcome = "returned"
    /\ explicitly_used = {"biblatex", "logreq"}
    /\ "etoolbox" \in sty
    /\ found_packages = {"etoolbox", "logreq", "tikz"}

----------------------------------------------------------------------------
(* Properties of the thread pools *)

\* C28: at every moment at most min(8, number of candidates) lookups are in
\* flight during resolve and at most min(4, number of requirements) installs
\* during sync; within one resolve no two workers operate on the same
\* identifier.
C28_BoundedDistinctWorkers ==
    /\ pool.kind = "resolve" =>
          /\ Cardinality(InFlight) <= min(8, Len(pool.items))
          /\ \A i, j \in InFlight : i # j => pool.items[i] # pool.items[j]
    /\ pool.kind = "sync" =>
          Cardinality(InFlight) <= min(4, Len(pool.items))

\* C28 witness: nine candidates, eight lookups in flight, the ninth queued
C28_Witness ==
    /\ pool.kind = "resolve"
    /\ Len(pool.items) = 9
    /\ pool.submitted = 9
    /\ Cardinality(InFlight) = 8
    /\ pool.started + 1 = pool.submitted

----------------------------------------------------------------------------
(* Properties of the warning scan *)

\* The fourth pass of the sequence has been judged; its engine run is the
\* last entry of the log
FourthJudged == mode = "sequence" /\ verdict[4] # "none"

\* C29 (as claimed): in any compile run the warning scan reads the output of
\* the fourth pass of the 4-pass sequence and of no other engine invocation,
\* and the verdict of the run is that of the pass, scanned or not.
C29_ScanOnlyFourthPass ==
    /\ scans # {} => FourthJudged /\ scans = {Len(log)}
    /\ pc = "done" /\ FourthJudged => result = Outcome(verdict[4] = "ok")

\* C29 (amended): the warning scan reads the output of the last engine
\* invocation of the run only, and only when that invocation is judged a
\* success: the fourth pass of the sequence, or the one pass of a single-pass
\* compile.  The verdict of the run is that of the pass, scanned or not.
C29_ScanOnlyLastSuccessfulPass ==
    /\ scans # {} =>
          /\ pc = "done" /\ result = "success"
          /\ scans = {Len(log)}
          /\ log[Len(log)] = <<"engine", "ran">>
          /\ mode = "sequence" => verdict[4] = "ok"
    /\ pc = "done" /\ result = "success" => scans = {Len(log)}
    /\ pc = "done" /\ FourthJudged => result = Outcome(verdict[4] = "ok")

\* C29 witness: a single-pass compile that succeeds and is scanned
C29_Witness ==
    /\ mode = "single" /\ pc = "done"
    /\ result = "success"
    /\ scans = {1}

----------------------------------------------------------------------------
(* Properties of _run_biber *)

\* A launch that found its binary
Launched(e) == e[2] # "missing"

\* C30: in _run_biber the first biber candidate that can be launched decides:
\* if it exits nonzero the result is failure, if it exits zero success, and in
\* both cases nothing is invoked after it, neither a remaining biber location
\* nor bibtex; bibtex is invoked only when none of the three could be launched.
C30_FirstLaunchedBiberDecides ==
    (bibliography_backend = "biber" /\ bib \in {"ok", "failed"}) =>
        /\ \A i \in DOMAIN ProcessorLog :
              (ProcessorLog[i][1] # "bibtex" /\ Launched(ProcessorLog[i])) =>
                  /\ i = Len(ProcessorLog)
                  /\ bib = ProcessorLog[i][2]
        /\ \A i \in DOMAIN ProcessorLog :
              ProcessorLog[i][1] = "bibtex" =>
                  /\ i = Len(biber_commands) + 1
                  /\ \A j \in 1..(i - 1) : ~Launched(ProcessorLog[j])

\* C30 witness: the system biber is not found, the local script is found and
\* exits nonzero: failure, with the local binary and bibtex never invoked
C30_Witness ==
    /\ bibliography_backend = "biber" /\ bib = "failed"
    /\ ProcessorLog = << <<"biber", "missing">>, <<"scripts/biber/biber.pl", "failed">> >>

=============================================================================
